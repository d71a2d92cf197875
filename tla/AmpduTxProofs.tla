---------------------------- MODULE AmpduTxProofs ----------------------------
(***************************************************************************)
(* Safety properties of AmpduTx for every value of its constants.          *)
(***************************************************************************)
EXTENDS AmpduTxTypes
-----------------------------------------------------------------------------
(* Flow control.  The end of a session lets mac80211 send again but does   *)
(* not reset early_aggr_skb_num; TxStart resets the number and leaves the  *)
(* request alone.  So the property is inductive only together with what    *)
(* the end of a session has emptied so far: nothing is left to aggregate   *)
(* when it is over, unless the TX task queues a frame behind it.           *)

MacStops == mac # "idle" => state = "STOP"
Ended ==
  /\ state = "STOP" /\ mac = "idle" => txq = <<>> /\ cur = <<>> /\ stopped = FALSE
  /\ mac \in {"retryq", "relq", "early"} => txq = <<>>
FlowInv == MacStops /\ StoppedForBacklog /\ ("queue" \notin strays => Ended)

LEMMA QueueEarlyFlow ==
  ASSUME TypeOK, stopped => esn > FcLower, NEW a \in Seq(Frames), QueueEarly(a)
  PROVE  stopped' => esn' > FcLower
<1>1. Len(a) \in Nat
  BY LenProperties
<1>2. esn' = esn + Len(a) /\ stopped' = (stopped \/ esn + Len(a) >= FcUpper)
  BY Zenon DEF QueueEarly
<1>3. esn \in Int /\ FcUpper \in Nat /\ FcLower \in Nat /\ FcLower < FcUpper
  BY SizesAssumption DEF TypeOK
<1>4. CASE stopped
  BY <1>1, <1>2, <1>3, <1>4
<1>5. CASE ~ stopped
  <2>1. stopped' => esn + Len(a) >= FcUpper
    BY <1>2, <1>5, Zenon
  <2> QED
    BY <1>1, <1>2, <1>3, <2>1
<1> QED
  BY <1>4, <1>5

\* A step that leaves the session and what is waited for alone.
LEMMA FlowSame ==
  ASSUME FlowInv, strays \subseteq strays',
         UNCHANGED <<state, mac, txq, cur, esn, stopped>>
  PROVE  FlowInv'
BY DEF FlowInv, MacStops, StoppedForBacklog, Ended

\* The end of a session, from its mark to the last queue.
LEMMA FlowStop ==
  ASSUME TypeOK, FlowInv,
         TxStop \/ StopMark \/ StopRelease \/ ClearTxq \/ ClearRetryq \/ ClearRelq
           \/ ClearEarly \/ ClearNext \/ StopEnd
  PROVE  FlowInv'
<1> USE DEF session, history, queueVars, winVars, chip, chipVars, walkVars, ctxVars
<1>1. CASE TxStop
  <2>1. /\ state' = "STOP" /\ mac' = "mark"
        /\ UNCHANGED <<esn, stopped, strays>>
    BY <1>1, Zenon DEF TxStop
  <2> QED
    BY <2>1 DEF FlowInv, MacStops, StoppedForBacklog, Ended
<1>2. CASE StopMark \/ ClearRetryq \/ ClearRelq \/ ClearEarly
  <2>1. UNCHANGED <<state, mac, txq, cur, esn, stopped>> /\ strays' = strays
    BY <1>2, Zenon DEF StopMark, ClearRetryq, ClearRelq, ClearEarly
  <2> QED
    BY <2>1, FlowSame
<1>3. CASE StopRelease
  <2>1. /\ mac = "mark" /\ mac' = "txq"
        /\ UNCHANGED <<state, esn, stopped, strays>>
    BY <1>3, Zenon DEF StopRelease
  <2> QED
    BY <2>1 DEF FlowInv, MacStops, StoppedForBacklog, Ended
<1>4. CASE ClearTxq
  <2>1. mac = "txq" /\ UNCHANGED <<state, mac, esn, stopped, strays>>
    BY <1>4, Zenon DEF ClearTxq
  <2> QED
    BY <2>1 DEF FlowInv, MacStops, StoppedForBacklog, Ended
<1>5. CASE ClearNext
  <2>1. /\ \/ mac = "txq" /\ Empty(txq) /\ mac' = "retryq"
           \/ mac = "retryq" /\ Empty(retryq) /\ mac' = "relq"
           \/ mac = "relq" /\ Empty(relq) /\ mac' = "early"
        /\ UNCHANGED <<state, txq, esn, stopped, strays>>
    BY <1>5, Zenon DEF ClearNext
  <2>2. txq = <<>> \/ mac \in {"retryq", "relq"}
    BY <2>1 DEF Empty
  <2>3. mac # "idle" /\ mac' # "idle"
    BY <2>1
  <2> QED
    BY <2>1, <2>2, <2>3 DEF FlowInv, MacStops, StoppedForBacklog, Ended
<1>6. CASE StopEnd
  <2>1. /\ mac = "early" /\ mac' = "idle" /\ cur' = <<>> /\ stopped' = FALSE
        /\ UNCHANGED <<state, txq, strays>>
    BY <1>6, Zenon DEF StopEnd
  <2> QED
    BY <2>1 DEF FlowInv, MacStops, StoppedForBacklog, Ended
<1> QED
  BY <1>1, <1>2, <1>3, <1>4, <1>5, <1>6

LEMMA FlowStep == TypeOK /\ FlowInv /\ [Next]_vars => FlowInv'
<1> SUFFICES ASSUME TypeOK, FlowInv, [Next]_vars PROVE FlowInv'
  OBVIOUS
<1> USE DEF vars, session, history, queueVars, winVars, chip, chipVars, walkVars, ctxVars
<1>0. ASSUME UNCHANGED <<state, mac, txq, cur, esn, stopped>>, strays \subseteq strays'
      PROVE  FlowInv'
  BY <1>0, FlowSame
<1>1. CASE Mac
  <2>1. CASE TxStart
    <3>1. /\ state = "STOP" /\ mac = "idle" /\ state' = "START"
          /\ UNCHANGED <<mac, stopped, strays>>
      BY <2>1, Zenon DEF TxStart
    <3> QED
      BY <3>1 DEF FlowInv, MacStops, StoppedForBacklog, Ended
  <2>2. CASE TxOperation
    <3>1. state = "START" /\ state' = "OPERATION" /\ UNCHANGED <<mac, stopped, esn, strays>>
      BY <2>2, Zenon DEF TxOperation
    <3> QED
      BY <3>1 DEF FlowInv, MacStops, StoppedForBacklog, Ended
  <2> QED
    BY <1>1, <2>1, <2>2, FlowStop DEF Mac
<1>2. CASE TxQueue
  <2>1. /\ strays' = IF state = "OPERATION" /\ last = SnOf(next) THEN strays
                     ELSE strays \cup {"queue"}
        /\ UNCHANGED <<state, mac, esn, stopped>>
    BY <1>2, Zenon DEF TxQueue
  <2>2. strays \subseteq strays' /\ (state = "OPERATION" \/ "queue" \in strays')
    BY <2>1
  <2> QED
    BY <2>1, <2>2 DEF FlowInv, MacStops, StoppedForBacklog, Ended
<1>3. CASE Aggregate
  <2>1. PICK n \in 0 .. Len(txq) :
          \/ QueueEarly(cur \o SubSeq(txq, 1, n))
          \/ UNCHANGED <<early, esn, stopped>>
    BY <1>3, Zenon DEF Aggregate
  <2>2. cur \o SubSeq(txq, 1, n) \in Seq(Frames)
    BY PartsOfSeq, ConcatProperties DEF TypeOK
  <2>3. (stopped => esn > FcLower) => (stopped' => esn' > FcLower)
    BY <2>1, <2>2, QueueEarlyFlow
  <2>4. UNCHANGED <<state, mac, strays>> /\ txq # <<>>
    BY <1>3, Zenon DEF Aggregate
  <2> QED
    BY <2>3, <2>4 DEF FlowInv, MacStops, StoppedForBacklog, Ended
<1>4. ASSUME NEW u, CloseCurrent(u) PROVE FlowInv'
  <2>1. UNCHANGED <<state, mac, txq, strays>> /\ cur \in Seq(Frames)
    BY <1>4 DEF CloseCurrent, TypeOK
  <2>2. CASE cur # <<>> /\ QueueEarly(cur) /\ cur' = <<>>
    <3>1. (stopped => esn > FcLower) => (stopped' => esn' > FcLower)
      BY <2>1, <2>2, QueueEarlyFlow
    <3> QED
      BY <2>1, <2>2, <3>1 DEF FlowInv, MacStops, StoppedForBacklog, Ended
  <2>3. CASE UNCHANGED <<early, esn, stopped, cur>>
    BY <1>0, <2>1, <2>3
  <2>4. (cur # <<>> /\ QueueEarly(cur) /\ cur' = <<>>) \/ UNCHANGED <<early, esn, stopped, cur>>
    BY <1>4, Zenon DEF CloseCurrent, Empty
  <2> QED
    BY <2>2, <2>3, <2>4
<1>5. ASSUME NEW t, FlushSync(t) PROVE FlowInv'
  <2> DEFINE a == Head(early)
  <2>1. a \in Seq(Frames)
    BY <1>5, HeadTailProperties DEF FlushSync, Empty, TypeOK
  <2> HIDE DEF a
  <2>2. /\ esn' = esn - Len(a)
        /\ stopped' = IF Empty(a) THEN stopped ELSE StaysStopped(esn - Len(a))
        /\ UNCHANGED <<state, mac, txq, cur, strays>>
    BY <1>5, Zenon DEF FlushSync, a
  <2>3. CASE Empty(a)
    <3>1. Len(a) = 0 /\ esn \in Int
      BY <2>3, EmptySeq DEF Empty, TypeOK
    <3>2. esn' = esn /\ stopped' = stopped
      BY <2>2, <2>3, <3>1
    <3> QED
      BY <1>0, <2>2, <3>2
  <2>4. CASE ~ Empty(a)
    <3>1. stopped' = (stopped /\ esn' > FcLower)
      BY <2>2, <2>4, Zenon DEF StaysStopped
    <3> QED
      BY <2>2, <3>1 DEF FlowInv, MacStops, StoppedForBacklog, Ended
  <2> QED
    BY <2>3, <2>4
<1>6. ASSUME NEW t, NEW p, FlushDone(t) \/ Release(t, p) \/ AmpduFlush(t, p) PROVE FlowInv'
  BY <1>0, <1>6, Zenon DEF FlushDone, Release, AmpduFlush
<1>7. CASE TxBypass \/ TxCheck \/ TxRefused \/ AggregateNoMem \/ AggregateDone
  BY <1>0, <1>7, Zenon DEF TxBypass, TxCheck, TxRefused, AggregateNoMem, AggregateDone
<1>8. ASSUME NEW t, FlushSend(t) \/ HciSend \/ HciSendFails \/ RetrySend \/ CollectPut
      PROVE FlowInv'
  <2>1. UNCHANGED <<state, mac, txq, cur, esn, stopped>>
    BY <1>8, Zenon DEF FlushSend, HciSend, HciSendFails, RetrySend, CollectPut
  <2>2. (\E a : Acquire(a) \/ MarkSent(a)) \/ CollectPut
    BY <1>8, Zenon DEF FlushSend, HciSend, HciSendFails, RetrySend
  <2>3. (\E S : Overwrite(S)) \/ CollectPut
    BY <2>2, Zenon DEF Acquire, MarkSent
  <2>4. strays \subseteq strays'
    BY <2>3 DEF Overwrite, CollectPut
  <2> QED
    BY <1>0, <2>1, <2>4
<1>9. CASE Chip
  BY <1>0, <1>9, Zenon DEF Chip, RxBa, RxNoBaEvent, RxRateRptNoBa, AirLost
<1>10. CASE RcNoBa \/ RetryTake \/ RetryNoMem \/ RetryDone \/ Report
  BY <1>0, <1>10, Zenon DEF RcNoBa, RetryTake, RetryNoMem, RetryDone, Report
<1>11. CASE RxRateRpt \/ RxEnd \/ CollectLook \/ CollectDone \/ NoTimeoutFlush
  BY <1>0, <1>11, Zenon DEF RxRateRpt, RxEnd, CollectLook, CollectDone, NoTimeoutFlush
<1>12. CASE CheckStart \/ CheckPass \/ CheckExpired \/ CheckDone
  BY <1>0, <1>12, Zenon DEF CheckStart, CheckPass, CheckExpired, CheckDone
<1>13. CASE UNCHANGED vars
  BY <1>0, <1>13
<1>14. CASE TxTask
  BY <1>2, <1>3, <1>4, <1>5, <1>6, <1>7, <1>8, <1>14 DEF TxTask
<1>15. CASE RxTask
  BY <1>4, <1>5, <1>6, <1>8, <1>10, <1>11, <1>12, <1>15 DEF RxTask, ReleaseBa, ReleaseTimeout
<1>16. CASE RcWork \/ Hci
  BY <1>6, <1>8, <1>10, <1>16 DEF RcWork, ReleaseNoBa, Hci
<1> QED
  BY <1>1, <1>9, <1>13, <1>14, <1>15, <1>16 DEF Next

LEMMA FlowAlways == Spec => []FlowInv
<1>1. Init => FlowInv
  <2> SUFFICES ASSUME Init PROVE FlowInv
    OBVIOUS
  <2>1. txq = <<>> /\ cur = <<>> /\ stopped = FALSE /\ mac = "idle"
    BY Zenon DEF Init
  <2> QED
    BY <2>1 DEF FlowInv, MacStops, StoppedForBacklog, Ended
<1>2. TypeOK /\ FlowInv /\ [Next]_vars => FlowInv'
  BY FlowStep
<1> QED
  BY <1>1, <1>2, TypeCorrect, PTL DEF Spec

\* mac80211 is kept from sending for a TID only while more frames wait in
\* the early queue than the lower bound: whatever the order of its end, of
\* the aggregates and of the flushes, a session leaves no AC stopped with
\* nothing to wake it, unless the TX task queues a frame of an ended session.
THEOREM StopHasBacklog == Spec => []StoppedForBacklog
<1>1. FlowInv => StoppedForBacklog
  BY DEF FlowInv
<1> QED
  BY <1>1, FlowAlways, PTL
-----------------------------------------------------------------------------
(* The frames of a queue of aggregates.                                    *)

\* Tables of queues that begin in the same way.
LEMMA TablesAgree ==
  ASSUME NEW q, NEW p, NEW n \in Nat, NEW m \in Nat, NEW F, NEW G,
         Table(q, n, F), Table(p, m, G), NEW k \in Nat, k <= n, k <= m,
         \A i \in 1 .. k : q[i] = p[i]
  PROVE  F[k] = G[k]
<1> DEFINE D == 0 .. k
           Wrong == {i \in D : F[i] # G[i]}
<1>0. \A i \in D : i \in 0 .. n /\ i \in 0 .. m
  OBVIOUS
<1>f. \A i \in 0 .. n : F[i] = IF i = 0 THEN <<>> ELSE F[i - 1] \o q[i]
  BY Zenon DEF Table
<1>g. \A i \in 0 .. m : G[i] = IF i = 0 THEN <<>> ELSE G[i - 1] \o p[i]
  BY Zenon DEF Table
<1>1. \A i \in D : F[i] = IF i = 0 THEN <<>> ELSE F[i - 1] \o q[i]
  BY <1>0, <1>f, Zenon
<1>2. \A i \in D : G[i] = IF i = 0 THEN <<>> ELSE G[i - 1] \o p[i]
  BY <1>0, <1>g, Zenon
<1>3. Wrong = {}
  <2> SUFFICES ASSUME Wrong # {} PROVE FALSE
    OBVIOUS
  <2>0. Wrong \in SUBSET D
    OBVIOUS
  <2> HIDE DEF Wrong
  <2>1. PICK j : j \in Wrong /\ \A i \in Wrong : j <= i
    BY <2>0, LeastNumber
  <2>2. j \in D /\ 0 \in D /\ F[j] # G[j]
    BY <2>0, <2>1 DEF Wrong
  <2>3. j # 0
    BY <1>1, <1>2, <2>2
  <2>4. j - 1 \in D /\ ~ (j <= j - 1) /\ j \in 1 .. k
    BY <2>2, <2>3
  <2>5. F[j - 1] = G[j - 1]
    BY <2>1, <2>4 DEF Wrong
  <2> QED
    BY <1>1, <1>2, <2>2, <2>3, <2>4, <2>5
<1> QED
  BY <1>3

LEMMA ConcatThree ==
  \A s, t, u \in Seq(Frames) : (s \o t) \o u = s \o (t \o u)
  BY ConcatAssociative

LEMMA FlattenEmpty == Flatten(<<>>) = <<>>
<1>1. <<>> \in Seq(Seq(Frames)) /\ Len(<<>>) = 0
  BY EmptySeq
<1>2. PICK F : Table(<<>>, 0, F) /\ Flatten(<<>>) = F[0]
  BY <1>1, FlattenIsTable
<1> QED
  BY <1>2 DEF Table

LEMMA FlattenAppend ==
  ASSUME NEW q \in Seq(Seq(Frames)), NEW a \in Seq(Frames)
  PROVE  Flatten(Append(q, a)) = Flatten(q) \o a
<1> DEFINE p == Append(q, a)
           n == Len(q)
<1>1. /\ p \in Seq(Seq(Frames)) /\ Len(p) = n + 1 /\ p[n + 1] = a /\ n \in Nat
      /\ \A i \in 1 .. n : q[i] = p[i]
  BY AppendProperties, LenProperties
<1> HIDE DEF p, n
<1>2. PICK F : Table(q, n, F) /\ Flatten(q) = F[n]
  BY FlattenIsTable DEF n
<1>3. PICK G : Table(p, n + 1, G) /\ Flatten(p) = G[n + 1]
  BY <1>1, FlattenIsTable
<1>4. F[n] = G[n]
  <2> DEFINE m == n + 1
  <2>1. m \in Nat /\ n <= n /\ n <= m /\ n \in Nat
    BY <1>1
  <2>2. Table(q, n, F) /\ Table(p, m, G) /\ \A i \in 1 .. n : q[i] = p[i]
    BY <1>1, <1>2, <1>3
  <2> HIDE DEF m
  <2> QED
    BY SMTT(40), <2>1, <2>2, TablesAgree
<1>5. G[n + 1] = G[n] \o a
  <2>1. n + 1 \in 0 .. n + 1 /\ n + 1 # 0 /\ (n + 1) - 1 = n
    BY <1>1
  <2>2. \A i \in 0 .. n + 1 : G[i] = IF i = 0 THEN <<>> ELSE G[i - 1] \o p[i]
    BY <1>3, Zenon DEF Table
  <2>3. G[n + 1] = G[(n + 1) - 1] \o p[n + 1]
    BY <2>1, <2>2, Zenon
  <2> QED
    BY <1>1, <2>1, <2>3
<1> QED
  BY <1>2, <1>3, <1>4, <1>5 DEF p

LEMMA FlattenTail ==
  ASSUME NEW q \in Seq(Seq(Frames)), q # <<>>
  PROVE  Flatten(q) = Head(q) \o Flatten(Tail(q))
<1> DEFINE p == Tail(q)
           n == Len(q)
           a == Head(q)
<1>1. /\ p \in Seq(Seq(Frames)) /\ Len(p) = n - 1 /\ n \in Nat \ {0} /\ a = q[1]
      /\ a \in Seq(Frames)
  BY PutBackHead, TailPlaces
<1>2. \A i \in 1 .. n - 1 : p[i] = q[i + 1]
  BY <1>1, TailPlaces
<1> HIDE DEF p, n, a
<1>3. PICK F : Table(q, n, F) /\ Flatten(q) = F[n]
  BY FlattenIsTable DEF n
<1>4. PICK G : Table(p, n - 1, G) /\ Flatten(p) = G[n - 1]
  BY <1>1, FlattenIsTable
<1> DEFINE D == 0 .. n - 1
           Wrong == {i \in D : F[i + 1] # a \o G[i]}
<1>5. \A i \in 0 .. n : F[i] = IF i = 0 THEN <<>> ELSE F[i - 1] \o q[i]
  BY <1>3 DEF Table
<1>6. /\ \A i \in D : G[i] = IF i = 0 THEN <<>> ELSE G[i - 1] \o p[i]
      /\ \A i \in D : G[i] \in Seq(Frames)
  BY <1>4 DEF Table
<1>7. Wrong = {}
  <2> SUFFICES ASSUME Wrong # {} PROVE FALSE
    OBVIOUS
  <2>0. Wrong \in SUBSET D
    OBVIOUS
  <2> HIDE DEF Wrong
  <2>n. n - 1 \in Nat
    BY <1>1
  <2>1. PICK j : j \in Wrong /\ \A i \in Wrong : j <= i
    BY <2>0, <2>n, LeastNumber
  <2>2. j \in D /\ F[j + 1] # a \o G[j]
    BY <2>0, <2>1 DEF Wrong
  <2>3. j # 0
    <3>1. 0 \in D /\ 1 \in 0 .. n /\ 0 \in 0 .. n /\ 0 + 1 = 1 /\ 1 - 1 = 0
      BY <1>1
    <3>a. F[0] = <<>> /\ G[0] = <<>>
      BY <1>5, <1>6, <3>1, Zenon
    <3>b. 1 # 0 /\ 1 \in 0 .. n
      BY <3>1
    <3>0. F[0] = <<>> /\ G[0] = <<>> /\ F[1] = F[1 - 1] \o q[1]
      BY <1>5, <3>a, <3>b, Zenon
    <3>2. F[1] = <<>> \o a /\ G[0] = <<>>
      BY <1>1, <3>0, <3>1
    <3>3. <<>> \o a = a /\ a \o <<>> = a
      BY <1>1, ConcatEmptySeq
    <3>4. F[0 + 1] = a \o G[0]
      BY <3>1, <3>2, <3>3
    <3> QED
      BY <2>2, <3>4
  <2>4. /\ j - 1 \in D /\ ~ (j <= j - 1) /\ j \in 1 .. n - 1 /\ j + 1 \in 0 .. n /\ j + 1 # 0
        /\ (j + 1) - 1 = j /\ (j - 1) + 1 = j
    BY <1>1, <2>2, <2>3
  <2>5. F[j] = a \o G[j - 1]
    BY <2>1, <2>4 DEF Wrong
  <2>6. F[j + 1] = F[j] \o q[j + 1] /\ G[j] = G[j - 1] \o p[j]
    BY <1>5, <1>6, <2>2, <2>3, <2>4
  <2>7. p[j] = q[j + 1] /\ p[j] \in Seq(Frames) /\ G[j - 1] \in Seq(Frames)
    BY <1>1, <1>2, <1>6, <2>4, ElementOfSeq
  <2>8. (a \o G[j - 1]) \o p[j] = a \o (G[j - 1] \o p[j])
    BY <1>1, <2>7, ConcatThree
  <2> QED
    BY <2>2, <2>5, <2>6, <2>7, <2>8
<1>8. n - 1 \in D /\ (n - 1) + 1 = n
  BY <1>1
<1>9. F[n] = a \o G[n - 1]
  BY <1>7, <1>8
<1> QED
  BY <1>3, <1>4, <1>9 DEF a, p

-----------------------------------------------------------------------------
(* early_aggr_skb_num.  The TX task and the RX task both put aggregates    *)
(* into early_aggr_ampdu_q and take them out; the property is inductive    *)
(* with TypeOK.                                                            *)

LEMMA FlattenLengths ==
  /\ Len(Flatten(<<>>)) = 0
  /\ \A q \in Seq(Seq(Frames)) : Len(Flatten(q)) \in Nat
  /\ \A q \in Seq(Seq(Frames)), a \in Seq(Frames) :
       Len(Flatten(Append(q, a))) = Len(Flatten(q)) + Len(a)
  /\ \A q \in Seq(Seq(Frames)) : q # <<>> =>
       Len(Flatten(Tail(q))) = Len(Flatten(q)) - Len(Head(q))
<1>1. Len(Flatten(<<>>)) = 0
  BY FlattenEmpty, EmptySeq
<1>2. ASSUME NEW q \in Seq(Seq(Frames)) PROVE Len(Flatten(q)) \in Nat
  BY FlattenType, LenProperties
<1>3. ASSUME NEW q \in Seq(Seq(Frames)), NEW a \in Seq(Frames)
      PROVE  Len(Flatten(Append(q, a))) = Len(Flatten(q)) + Len(a)
  BY FlattenAppend, FlattenType, ConcatProperties
<1>4. ASSUME NEW q \in Seq(Seq(Frames)), q # <<>>
      PROVE  Len(Flatten(Tail(q))) = Len(Flatten(q)) - Len(Head(q))
  <2>1. Head(q) \in Seq(Frames) /\ Tail(q) \in Seq(Seq(Frames))
    BY <1>4, PutBackHead
  <2>2. Flatten(Tail(q)) \in Seq(Frames) /\ Flatten(q) = Head(q) \o Flatten(Tail(q))
    BY <1>4, <2>1, FlattenType, FlattenTail
  <2>3. Len(Head(q)) \in Nat /\ Len(Flatten(Tail(q))) \in Nat
    BY <2>1, <2>2, LenProperties
  <2>4. Len(Flatten(q)) = Len(Head(q)) + Len(Flatten(Tail(q)))
    BY <2>1, <2>2, ConcatProperties
  <2> QED
    BY <2>3, <2>4
<1> QED
  BY <1>1, <1>2, <1>3, <1>4

\* What ends a session leaves it ended.
LEMMA StopsOnly ==
  ASSUME MacStops, Mac, ~ (TxStart \/ TxOperation) PROVE state' = "STOP"
<1> USE DEF session
<1>1. CASE TxStop
  BY <1>1, Zenon DEF TxStop
<1>2. CASE ~ TxStop
  <2>1. \/ StopMark \/ StopRelease \/ ClearTxq \/ ClearRetryq
        \/ ClearRelq \/ ClearEarly \/ ClearNext \/ StopEnd
    BY <1>2, Zenon DEF Mac
  <2>2. mac # "idle"
    BY <2>1 DEF StopMark, StopRelease, ClearTxq, ClearRetryq, ClearRelq, ClearEarly,
                ClearNext, StopEnd
  <2>3. state' = state
    BY <2>1, Zenon DEF StopMark, StopRelease, ClearTxq, ClearRetryq, ClearRelq, ClearEarly,
                       ClearNext, StopEnd
  <2> QED
    BY <2>2, <2>3 DEF MacStops
<1> QED
  BY <1>1, <1>2

LEMMA EarlyQueued ==
  ASSUME TypeOK, EarlyCount, NEW a \in Seq(Frames), QueueEarly(a), state' = state
  PROVE  EarlyCount'
<1>1. early' = Append(early, a) /\ esn' = esn + Len(a)
  BY Zenon DEF QueueEarly
<1>2. early \in Seq(Seq(Frames))
  BY DEF TypeOK
<1>3. Len(Flatten(Append(early, a))) = Len(Flatten(early)) + Len(a)
  BY <1>2, FlattenLengths
<1> QED
  BY <1>1, <1>3, Zenon DEF EarlyCount

LEMMA EarlyStep == TypeOK /\ MacStops /\ EarlyCount /\ [Next]_vars => EarlyCount'
<1> SUFFICES ASSUME TypeOK, MacStops, EarlyCount, [Next]_vars PROVE EarlyCount'
  OBVIOUS
<1> USE DEF vars, session, history, queueVars, winVars, chip, chipVars, walkVars, ctxVars
<1>0. ASSUME UNCHANGED <<state, early, esn>> PROVE EarlyCount'
  BY <1>0 DEF EarlyCount
<1>1. CASE Mac
  <2>1. CASE TxStart
    <3>1. early' = <<>> /\ esn' = 0
      BY <2>1, Zenon DEF TxStart
    <3> QED
      BY <3>1, FlattenLengths, Zenon DEF EarlyCount
  <2>2. CASE TxOperation
    <3>1. state = "START" /\ UNCHANGED <<early, esn>>
      BY <2>2, Zenon DEF TxOperation
    <3> QED
      BY <3>1 DEF EarlyCount
  <2>3. CASE ~ (TxStart \/ TxOperation)
    <3>1. state' = "STOP"
      BY <1>1, <2>3, StopsOnly
    <3> QED
      BY <3>1 DEF EarlyCount
  <2> QED
    BY <2>1, <2>2, <2>3
<1>2. CASE Aggregate
  <2>1. PICK n \in 0 .. Len(txq) :
          \/ QueueEarly(cur \o SubSeq(txq, 1, n))
          \/ UNCHANGED <<early, esn, stopped>>
    BY <1>2, Zenon DEF Aggregate
  <2>2. cur \o SubSeq(txq, 1, n) \in Seq(Frames)
    BY PartsOfSeq, ConcatProperties DEF TypeOK
  <2>3. state' = state
    BY <1>2, Zenon DEF Aggregate
  <2> QED
    BY <1>0, <2>1, <2>2, <2>3, EarlyQueued
<1>3. ASSUME NEW u, CloseCurrent(u) PROVE EarlyCount'
  <2>1. state' = state /\ cur \in Seq(Frames)
    BY <1>3 DEF CloseCurrent, TypeOK
  <2>2. QueueEarly(cur) \/ UNCHANGED <<early, esn, stopped, cur>>
    BY <1>3, Zenon DEF CloseCurrent
  <2> QED
    BY <1>0, <2>1, <2>2, EarlyQueued
<1>4. ASSUME NEW t, FlushSync(t) PROVE EarlyCount'
  <2>1. early # <<>> /\ early' = Tail(early) /\ esn' = esn - Len(Head(early)) /\ state' = state
    BY <1>4, Zenon DEF FlushSync, Empty
  <2>2. early \in Seq(Seq(Frames))
    BY DEF TypeOK
  <2>3. Len(Flatten(Tail(early))) = Len(Flatten(early)) - Len(Head(early))
    BY <2>1, <2>2, FlattenLengths
  <2> QED
    BY <2>1, <2>3, Zenon DEF EarlyCount
<1>5. ASSUME NEW t, NEW p, FlushSend(t) \/ FlushDone(t) \/ AmpduFlush(t, p) \/ Release(t, p)
      PROVE EarlyCount'
  BY <1>0, <1>5, Zenon DEF FlushSend, FlushDone, AmpduFlush, Release
<1>6. CASE TxBypass \/ TxCheck \/ TxRefused \/ TxQueue \/ AggregateNoMem \/ AggregateDone
  BY <1>0, <1>6, Zenon DEF TxBypass, TxCheck, TxRefused, TxQueue, AggregateNoMem, AggregateDone
<1>7. CASE Hci
  BY <1>0, <1>7, Zenon DEF Hci, HciSend, HciSendFails
<1>8. CASE RxBa \/ RxNoBaEvent \/ RxRateRptNoBa \/ AirLost
  BY <1>0, <1>8, Zenon DEF RxBa, RxNoBaEvent, RxRateRptNoBa, AirLost
<1>9. CASE RcNoBa \/ RetryTake \/ RetryNoMem \/ RetrySend \/ RetryDone \/ Report
  BY <1>0, <1>9, Zenon DEF RcNoBa, RetryTake, RetryNoMem, RetrySend, RetryDone, Report
<1>10. CASE RxRateRpt \/ RxEnd \/ CollectLook \/ CollectPut \/ CollectDone \/ NoTimeoutFlush
  BY <1>0, <1>10, Zenon
  DEF RxRateRpt, RxEnd, CollectLook, CollectPut, CollectDone, NoTimeoutFlush
<1>11. CASE CheckStart \/ CheckPass \/ CheckExpired \/ CheckDone
  BY <1>0, <1>11, Zenon DEF CheckStart, CheckPass, CheckExpired, CheckDone
<1>12. CASE UNCHANGED vars
  BY <1>0, <1>12
<1>13. CASE TxTask
  BY <1>2, <1>3, <1>4, <1>5, <1>6, <1>13 DEF TxTask
<1>14. CASE Chip
  BY <1>8, <1>14 DEF Chip
<1>15. CASE RxTask
  BY <1>3, <1>4, <1>5, <1>9, <1>10, <1>11, <1>15 DEF RxTask, ReleaseBa, ReleaseTimeout
<1>16. CASE RcWork
  BY <1>5, <1>9, <1>16 DEF RcWork, ReleaseNoBa
<1> QED
  BY <1>1, <1>7, <1>12, <1>13, <1>14, <1>15, <1>16 DEF Next

\* In every session early_aggr_skb_num is the number of frames that wait in
\* the early queue, whichever of the two tasks queues and flushes them; the
\* flow control compares that number with its bounds.
THEOREM EarlyNumberIsRight == Spec => []EarlyCount
<1>1. Init => EarlyCount
  BY Zenon DEF Init, EarlyCount
<1>2. TypeOK /\ MacStops /\ EarlyCount /\ [Next]_vars => EarlyCount'
  BY EarlyStep
<1>3. FlowInv => MacStops
  BY DEF FlowInv
<1> QED
  BY <1>1, <1>2, <1>3, TypeCorrect, FlowAlways, PTL DEF Spec

-----------------------------------------------------------------------------
(* Sequence numbers and window slots.  SlotOf and SnOf of a number f.      *)

LEMMA Sizes ==
  /\ W \in Nat \ {0} /\ MaxSsn \in Nat \ {0} /\ 2 * W <= MaxSsn
  /\ FirstSsn \in Int /\ NumFrames \in Nat /\ NumFrames < MaxSsn
<1>1. FirstSsn \in Int
  BY SizesAssumption
<1> QED
  BY <1>1, SizesAssumption, WindowDividesAssumption, ManySsnsAssumption, Zenon

\* No sequence number is SSV_ILLEGAL_SN.
LEMMA LegalIs == IllegalSn \in Nat /\ MaxSsn < IllegalSn
<1>1. IllegalSn \in Nat
  BY SMT DEF IllegalSn
<1>2. MaxSsn < IllegalSn
  BY ManySsnsAssumption, Zenon
<1> QED
  BY <1>1, <1>2

LEMMA LegalSns == IllegalSn \notin 0 .. MaxSsn - 1
  BY LegalIs, Sizes

LEMMA SnPlace ==
  ASSUME NEW f \in Int
  PROVE  SnOf(f) \in 0 .. MaxSsn - 1 /\ SlotOf(f) = (FirstSsn + f) % W /\ SlotOf(f) \in Slots
<1> DEFINE x == FirstSsn + f
<1>1. x \in Int
  BY Sizes
<1> HIDE DEF x
<1>2. x % MaxSsn \in 0 .. MaxSsn - 1 /\ x % W \in 0 .. W - 1
  BY <1>1, Sizes, DivMod, Zenon
<1>3. (x % MaxSsn) % W = x % W
  BY <1>1, Sizes, WindowDividesAssumption, ModMod, Zenon
<1> QED
  BY <1>2, <1>3 DEF SnOf, SlotOf, Slots, x

LEMMA SnNext ==
  ASSUME NEW f \in Int, NEW k \in Int
  PROVE  (SnOf(f) + k) % MaxSsn = SnOf(f + k)
<1> DEFINE x == FirstSsn + f
<1>1. x \in Int /\ FirstSsn + (f + k) = x + k
  BY Sizes
<1> HIDE DEF x
<1>2. ((x % MaxSsn) + k) % MaxSsn = (x + k) % MaxSsn
  BY <1>1, Sizes, ModPlus, Zenon
<1> QED
  BY <1>1, <1>2 DEF SnOf, x

LEMMA SnUnique ==
  ASSUME NEW f \in Int, NEW g \in Int, SnOf(f) = SnOf(g), f - g < MaxSsn, g - f < MaxSsn
  PROVE  f = g
<1> DEFINE x == FirstSsn + f
           y == FirstSsn + g
<1>1. x \in Int /\ y \in Int /\ x - y < MaxSsn /\ y - x < MaxSsn /\ (x = y => f = g)
  BY Sizes
<1>2. x % MaxSsn = y % MaxSsn
  BY DEF SnOf
<1> HIDE DEF x, y
<1>3. x = y
  BY <1>1, <1>2, Sizes, ModNear, Zenon
<1> QED
  BY <1>1, <1>3

\* Within a window's length of each other, two numbers have different slots.
LEMMA SlotUnique ==
  ASSUME NEW f \in Int, NEW g \in Int, SlotOf(f) = SlotOf(g), f - g < W, g - f < W
  PROVE  f = g
<1> DEFINE x == FirstSsn + f
           y == FirstSsn + g
<1>1. x \in Int /\ y \in Int /\ x - y < W /\ y - x < W /\ (x = y => f = g)
  BY Sizes
<1>2. x % W = y % W
  BY SnPlace, Zenon
<1> HIDE DEF x, y
<1>3. x = y
  BY <1>1, <1>2, Sizes, ModNear, Zenon
<1> QED
  BY <1>1, <1>3

\* The slot k places after that of f.
LEMMA SlotStep ==
  ASSUME NEW f \in Int, NEW k \in 0 .. W - 1
  PROVE  SlotOf(f + k) = IF SlotOf(f) + k < W THEN SlotOf(f) + k ELSE SlotOf(f) + k - W
<1> DEFINE x == FirstSsn + f
           d == x \div W
           h == x % W
           y == FirstSsn + (f + k)
<1>0. x \in Int /\ f + k \in Int /\ y = x + k /\ y \in Int
  BY Sizes
<1>1. SlotOf(f) = h /\ SlotOf(f + k) = y % W
  BY <1>0, SnPlace, Zenon
<1> HIDE DEF x, y
<1>2. d \in Int /\ h \in 0 .. W - 1 /\ x = W * d + h
  BY <1>0, Sizes, DivMod
<1> HIDE DEF d, h
<1>3. CASE h + k < W
  <2>1. h + k \in 0 .. W - 1 /\ y = W * d + (h + k)
    BY <1>0, <1>2, <1>3, Sizes
  <2>2. (W * d + (h + k)) % W = h + k
    BY <1>2, <2>1, Sizes, ModOf, Zenon
  <2> QED
    BY <1>1, <1>3, <2>1, <2>2
<1>4. CASE ~ (h + k < W)
  <2> DEFINE r == h + k - W
             e == d + 1
  <2>1. r \in 0 .. W - 1 /\ e \in Int
    BY <1>2, <1>4, Sizes
  <2>2. W * (d + 1) = W * d + W
    BY <1>2, Sizes
  <2>3. y = W * e + r
    BY <1>0, <1>2, <2>2, Sizes
  <2> HIDE DEF r, e
  <2>4. (W * e + r) % W = r
    BY <2>1, Sizes, ModOf, Zenon
  <2> QED
    BY <1>1, <1>4, <2>3, <2>4 DEF r
<1> QED
  BY <1>3, <1>4

LEMMA SlotAround ==
  ASSUME NEW f \in Int
  PROVE  SlotOf(f + W) = SlotOf(f)
<1> DEFINE x == FirstSsn + f
<1>1. x \in Int /\ f + W \in Int /\ FirstSsn + (f + W) = W * 1 + x /\ 1 \in Int
  BY Sizes
<1> HIDE DEF x
<1>2. (W * 1 + x) % W = x % W
  BY <1>1, Sizes, ModAdd, Zenon
<1>3. SlotOf(f) = (FirstSsn + f) % W /\ SlotOf(f + W) = (FirstSsn + (f + W)) % W
  BY <1>1, SnPlace
<1> QED
  BY <1>1, <1>2, <1>3 DEF x

\* Every slot is that of one of the W numbers from f.
LEMMA SlotReached ==
  ASSUME NEW f \in Int, NEW i \in Slots
  PROVE  \E k \in 0 .. W - 1 : SlotOf(f + k) = i
<1> DEFINE h == SlotOf(f)
           k == IF i >= h THEN i - h ELSE i + W - h
<1>1. h \in 0 .. W - 1 /\ i \in 0 .. W - 1
  BY SnPlace DEF Slots
<1>2. SlotOf(f + k) = IF h + k < W THEN h + k ELSE h + k - W
  <2>1. k \in 0 .. W - 1
    BY <1>1, Sizes
  <2> HIDE DEF k
  <2> QED
    BY <2>1, SlotStep
<1>3. k \in 0 .. W - 1 /\ (IF h + k < W THEN h + k ELSE h + k - W) = i
  <2> HIDE DEF h
  <2> QED
    BY <1>1, Sizes
<1> QED
  BY <1>2, <1>3, Zenon

\* The slots the code reaches from the head are those of the MPDUs from f.
LEMMA SlotFromHead ==
  ASSUME NEW f \in Int, head = SnOf(f), NEW k \in 0 .. W - 1
  PROVE  SlotAt(k) = SlotOf(f + k) /\ Offset(SlotOf(f + k)) = k
<1>1. HeadSlot = SlotOf(f)
  BY DEF HeadSlot, SlotOf
<1>2. SlotOf(f) \in 0 .. W - 1
  BY SnPlace DEF Slots
<1>3. SlotAt(k) = SlotOf(f + k)
  BY <1>1, SlotStep DEF SlotAt
<1>4. head \in Nat
  BY SnPlace
<1> QED
  BY <1>3, <1>4, SlotAtType

-----------------------------------------------------------------------------
(* The window and what follows it.  Within a session the driver holds      *)
(* consecutive MPDUs: lo, the first of the window, lo + 1 and so on to the *)
(* last one it accepted.  Each is in the slot of its number, or behind the *)
(* window in its place.  That is so unless an accepted frame is not        *)
(* aggregated after all, an A-MPDU cannot be allocated or the chip reports *)
(* that no BlockAck came: README.md says what happens then.                *)

Steady == Faults \cap {"refuse", "alloc", "noba"} = {}

Queued == Flatten(early) \o (cur \o txq)
Below(s, n) == \A i \in 1 .. Len(s) : s[i] < n
Counts(s, n) == \A i \in 1 .. Len(s) : s[i] = n + i - 1

WindowFrom(lo) ==
  /\ num \in 0 .. W
  /\ head = IF num = 0 THEN IllegalSn ELSE SnOf(lo)
  /\ \A k \in 0 .. W - 1 : win[SlotOf(lo + k)] = IF k < num THEN lo + k ELSE Null
\* last_seqno is that of the last frame, or of the one that is about to join.
LastFrom(n) ==
  \/ last = SnOf(n + Len(Queued) - 1)
  \/ pc["tx"] = "queue" /\ last = SnOf(next) /\ n + Len(Queued) = next
QueuedFrom(n) ==
  /\ Counts(Queued, n)
  /\ n + Len(Queued) <= next
  /\ last # NoSeq => LastFrom(n)
Untouched == num = 0 /\ Queued = <<>> /\ relq = <<>>
Released(lo) == Rising(relq) /\ Below(relq, lo)
Consecutive(lo) ==
  /\ WindowFrom(lo) /\ QueuedFrom(lo + num) /\ Released(lo)
  /\ last = NoSeq => Untouched

\* What mac80211 has got back, in a session that is never stopped.
Settled(lo) ==
  /\ lost = {} /\ cnt = Len(relq) + num + Len(Queued)
  /\ Rising(out \o relq) /\ Below(out \o relq, lo)

SessionInv ==
  strays = {} /\ state # "STOP" =>
    \E lo \in 1 .. NumFrames + 1 :
      Consecutive(lo) /\ ("stop" \notin Faults => Settled(lo))

\* When the session is never stopped: before it is started, and what the TX
\* task has checked is still so when it queues the frame.
FreshInv ==
  "stop" \notin Faults =>
    /\ mac = "idle" /\ "queue" \notin strays
    /\ pc["tx"] = "queue" => state = "OPERATION" /\ last = SnOf(next)
    /\ state = "STOP" =>
         /\ pc["tx"] = "idle" /\ pc["rx"] = "idle" /\ hciq = <<>> /\ air = <<>>
         /\ txq = <<>> /\ cur = <<>> /\ early = <<>> /\ relq = <<>> /\ retryq = <<>>
         /\ win = [i \in Slots |-> Null]
         /\ out = <<>> /\ lost = {} /\ cnt = 0

\* The retry queue is filled by the first step of _collect_retry_frames alone,
\* and emptied before the RX task does anything else.
RetryInv ==
  /\ pc["rc"] = "idle" /\ rcq = <<>>
  /\ Len(retryq) <= 1
  /\ retryq # <<>> => pc["rx"] \in CollectPcs \cup RetryPcs
  /\ hand # Null => pc["rx"] \in CollectPcs /\ walk = 0
  /\ pc["rx"] \in CollectPcs => base # IllegalSn /\ (walk = 0 => retryq = <<>>)
  /\ pc["rx"] \notin CollectPcs \cup {"check"} => walk = 0
  /\ strays = {} /\ state # "STOP" => \A i \in 1 .. Len(retryq) : InWindow(retryq[i])

-----------------------------------------------------------------------------
(* The window.                                                             *)

\* A frame of the window is one of the num frames from lo.
LEMMA WindowHolds ==
  ASSUME NEW lo \in Nat \ {0}, WindowFrom(lo), NEW i \in Slots, win[i] # Null
  PROVE  \E k \in 0 .. num - 1 : i = SlotOf(lo + k) /\ win[i] = lo + k
<1>0. lo \in Int
  OBVIOUS
<1>1. PICK k \in 0 .. W - 1 : SlotOf(lo + k) = i
  BY <1>0, SlotReached, Zenon
<1>2. win[i] = IF k < num THEN lo + k ELSE Null
  BY <1>1 DEF WindowFrom
<1>3. k < num /\ num \in Int
  BY <1>2 DEF WindowFrom
<1>4. k \in 0 .. num - 1
  BY <1>3
<1> QED
  BY <1>1, <1>2, <1>3, <1>4

LEMMA WindowKeeps ==
  ASSUME NEW lo \in Nat \ {0}, WindowFrom(lo), NEW f \in Frames, InWindow(f)
  PROVE  f \in lo .. lo + num - 1
<1>1. SlotOf(f) \in Slots /\ f # Null
  BY SnTypes DEF Frames, Null
<1>2. PICK k \in 0 .. num - 1 : win[SlotOf(f)] = lo + k
  BY <1>1, WindowHolds DEF InWindow
<1>3. f = lo + k /\ num \in Int
  BY <1>2 DEF InWindow, WindowFrom
<1> QED
  BY <1>3

LEMMA WindowHas ==
  ASSUME NEW lo \in Nat \ {0}, WindowFrom(lo), NEW f \in lo .. lo + num - 1
  PROVE  InWindow(f)
<1> DEFINE k == f - lo
<1>0. num \in 0 .. W /\ W \in Nat
  BY Sizes DEF WindowFrom
<1>1. k \in 0 .. W - 1 /\ k < num /\ lo + k = f
  BY <1>0
<1> HIDE DEF k
<1>2. win[SlotOf(lo + k)] = lo + k
  BY <1>1, Zenon DEF WindowFrom
<1> QED
  BY <1>1, <1>2 DEF InWindow

LEMMA WindowHead ==
  ASSUME NEW lo \in Nat \ {0}, WindowFrom(lo)
  PROVE  (head = IllegalSn) = (num = 0)
<1>1. SnOf(lo) # IllegalSn
  BY SnPlace, LegalSns
<1> QED
  BY <1>1 DEF WindowFrom

\* The frames that leave are the first n of the window.
LEMMA PrefixLength ==
  ASSUME NEW lo \in Nat \ {0}, WindowFrom(lo), NEW n \in 0 .. W, Leading(n)
  PROVE  n <= num
<1>1. num \in 0 .. W /\ W \in Nat
  BY Sizes DEF WindowFrom
<1>2. CASE num = 0
  <2>1. head = IllegalSn
    BY <1>2, WindowHead
  <2> QED
    BY <1>2, <2>1 DEF Leading
<1>3. CASE num # 0
  <2>1. head # IllegalSn /\ head = SnOf(lo)
    BY <1>3, WindowHead DEF WindowFrom
  <2> SUFFICES ASSUME num < n PROVE FALSE
    BY <1>1
  <2>2. num \in 0 .. n - 1 /\ num \in 0 .. W - 1
    BY <1>1
  <2>3. MayLeave(num)
    BY <2>1, <2>2 DEF Leading
  <2>4. SlotAt(num) = SlotOf(lo + num)
    BY <2>1, <2>2, SlotFromHead
  <2>5. win[SlotOf(lo + num)] = Null
    BY <1>1, <2>2 DEF WindowFrom
  <2> QED
    BY <2>3, <2>4, <2>5 DEF MayLeave
<1> QED
  BY <1>2, <1>3

LEMMA PrefixFrames ==
  ASSUME NEW lo \in Nat \ {0}, WindowFrom(lo), NEW n \in 0 .. num
  PROVE  Len(ReleasedSeq(n)) = n /\ Counts(ReleasedSeq(n), lo)
<1>1. num \in 0 .. W /\ W \in Nat /\ n \in Nat
  BY Sizes DEF WindowFrom
<1>2. Len(ReleasedSeq(n)) = n
  BY <1>1 DEF ReleasedSeq
<1>3. ASSUME NEW i \in 1 .. n PROVE ReleasedSeq(n)[i] = lo + i - 1
  <2>1. i - 1 \in 0 .. W - 1 /\ i - 1 < num /\ num # 0 /\ lo + (i - 1) = lo + i - 1
    BY <1>1
  <2>2. head = SnOf(lo)
    BY <2>1 DEF WindowFrom
  <2>3. SlotAt(i - 1) = SlotOf(lo + (i - 1))
    BY <2>1, <2>2, SlotFromHead
  <2>4. win[SlotOf(lo + (i - 1))] = lo + (i - 1)
    BY <2>1, Zenon DEF WindowFrom
  <2>5. ReleasedSeq(n)[i] = win[SlotAt(i - 1)]
    BY <1>1 DEF ReleasedSeq
  <2> QED
    BY <2>1, <2>3, <2>4, <2>5
<1> QED
  BY <1>2, <1>3 DEF Counts

LEMMA ReleaseWindow ==
  ASSUME NEW lo \in Nat \ {0}, WindowFrom(lo), NEW n \in 0 .. num, ReleaseFrames(n)
  PROVE  WindowFrom(lo + n)'
<1>1. num \in 0 .. W /\ W \in Nat \ {0} /\ n \in Nat
  BY Sizes DEF WindowFrom
<1>2. num' = num - n /\ num' \in 0 .. W /\ (num' = 0 <=> n = num)
  BY <1>1 DEF ReleaseFrames
<1>3. \A i \in Slots : win'[i] = IF Offset(i) < n THEN Null ELSE win[i]
  BY DEF ReleaseFrames
<1>4. CASE num = 0
  <2>1. n = 0 /\ head = IllegalSn /\ lo + n = lo
    BY <1>1, <1>4, WindowHead
  <2>2. head' = IllegalSn
    BY <2>1 DEF ReleaseFrames, HeadAfter
  <2>3. ASSUME NEW k \in 0 .. W - 1 PROVE win'[SlotOf(lo + k)] = Null
    <3>1. SlotOf(lo + k) \in Slots
      BY SnPlace
    <3>2. win[SlotOf(lo + k)] = Null
      BY <1>4 DEF WindowFrom
    <3> QED
      BY <1>3, <3>1, <3>2
  <2> QED
    BY <1>1, <1>2, <1>4, <2>1, <2>2, <2>3 DEF WindowFrom
<1>5. CASE num # 0
  <2>1. head = SnOf(lo) /\ head # IllegalSn
    BY <1>5, WindowHead DEF WindowFrom
  <2>2. head' = IF num' = 0 THEN IllegalSn ELSE SnOf(lo + n)
    <3>1. CASE n = num
      <4>1. n < W => SlotAt(n) = SlotOf(lo + n) /\ win[SlotOf(lo + n)] = Null
        <5> SUFFICES ASSUME n < W PROVE SlotAt(n) = SlotOf(lo + n) /\ win[SlotOf(lo + n)] = Null
          OBVIOUS
        <5>1. n \in 0 .. W - 1
          BY <1>1
        <5>2. SlotAt(n) = SlotOf(lo + n)
          BY <2>1, <5>1, SlotFromHead
        <5>3. win[SlotOf(lo + n)] = Null
          BY <1>1, <3>1, <5>1 DEF WindowFrom
        <5> QED
          BY <5>2, <5>3
      <4>2. n = W \/ win[SlotAt(n)] = Null
        BY <1>1, <3>1, <4>1
      <4>3. head' = IllegalSn
        BY <4>2, Zenon DEF ReleaseFrames, HeadAfter
      <4> QED
        BY <1>2, <3>1, <4>3
    <3>2. CASE n # num
      <4>1. n \in 0 .. W - 1 /\ n < num
        BY <1>1, <3>2
      <4>2. SlotAt(n) = SlotOf(lo + n) /\ win[SlotOf(lo + n)] = lo + n
        BY <2>1, <4>1, SlotFromHead DEF WindowFrom
      <4>3. lo + n # Null /\ n # W
        BY <1>1, <4>1 DEF Null
      <4>4. head' = (head + n) % MaxSsn
        BY <2>1, <4>2, <4>3, Zenon DEF ReleaseFrames, HeadAfter
      <4>5. (SnOf(lo) + n) % MaxSsn = SnOf(lo + n)
        BY SnNext
      <4> QED
        BY <1>2, <2>1, <3>2, <4>4, <4>5, Zenon
    <3> QED
      BY <3>1, <3>2
  <2>3. ASSUME NEW k \in 0 .. W - 1
        PROVE  win'[SlotOf((lo + n) + k)] = IF k < num' THEN (lo + n) + k ELSE Null
    <3>1. CASE n + k < W
      <4> DEFINE j == n + k
      <4>1. j \in 0 .. W - 1 /\ (lo + n) + k = lo + j /\ (k < num' <=> j < num) /\ ~ (j < n)
        BY <1>1, <1>2, <3>1
      <4> HIDE DEF j
      <4>2. SlotOf(lo + j) \in Slots /\ Offset(SlotOf(lo + j)) = j
        BY <2>1, <4>1, SlotFromHead, SnPlace
      <4>3. win'[SlotOf(lo + j)] = win[SlotOf(lo + j)]
        BY <1>3, <4>1, <4>2
      <4>4. win[SlotOf(lo + j)] = IF j < num THEN lo + j ELSE Null
        BY <4>1, Zenon DEF WindowFrom
      <4> QED
        BY <4>1, <4>3, <4>4, Zenon
    <3>2. CASE ~ (n + k < W)
      <4> DEFINE j == n + k - W
      <4>1. j \in 0 .. W - 1 /\ (lo + n) + k = (lo + j) + W /\ j < n /\ ~ (k < num') /\ lo + j \in Int
        BY <1>1, <1>2, <3>2
      <4> HIDE DEF j
      <4>2. SlotOf(lo + j) \in Slots /\ Offset(SlotOf(lo + j)) = j
        BY <2>1, <4>1, SlotFromHead, SnPlace
      <4>3. win'[SlotOf(lo + j)] = Null
        BY <1>3, <4>1, <4>2
      <4>4. SlotOf((lo + j) + W) = SlotOf(lo + j)
        BY <4>1, SlotAround
      <4> QED
        BY <4>1, <4>3, <4>4, Zenon
    <3> QED
      BY <3>1, <3>2
  <2> QED
    BY <1>2, <2>2, <2>3, Zenon DEF WindowFrom
<1> QED
  BY <1>4, <1>5

\* An aggregate that has room in the window and follows it: no frame of it
\* lies outside the window, and together they extend it.
LEMMA NotSkipped ==
  ASSUME NEW lo \in Nat \ {0}, WindowFrom(lo), NEW a, Len(a) \in Nat,
         Counts(a, lo + num), num + Len(a) <= W
  PROVE  ~ Skipped(a)
<1>1. num \in 0 .. W /\ W \in Nat \ {0} /\ MaxSsn \in Nat \ {0}
  BY Sizes DEF WindowFrom
<1>2. ASSUME NEW i \in Indices(a) PROVE ~ Beyond(a[i])
  <2> DEFINE j == num + i - 1
  <2>1. i \in 1 .. Len(a)
    BY DEF Indices
  <2>2. j \in 0 .. W - 1 /\ (lo + num) + i - 1 = lo + j
    BY <1>1, <2>1
  <2>3. a[i] = lo + j
    BY <2>1, <2>2 DEF Counts
  <2> HIDE DEF j
  <2>4. lo + j \in Int /\ lo \in Int /\ j \in Int
    BY <2>2
  <2>5. SnOf(lo + j) \in 0 .. MaxSsn - 1 /\ SnOf(lo) \in 0 .. MaxSsn - 1
    BY <2>4, SnPlace
  <2>6. CASE num = 0
    <3>1. head = IllegalSn
      BY <2>6, WindowHead
    <3>2. IllegalSn \in Nat /\ MaxSsn < IllegalSn
      BY LegalIs
    <3> QED
      BY <1>1, <2>3, <2>5, <3>1, <3>2 DEF Beyond
  <2>7. CASE num # 0
    <3>1. head = SnOf(lo)
      BY <2>7 DEF WindowFrom
    <3> DEFINE x == SnOf(lo) + j
    <3>2. x \in Nat /\ x < SnOf(lo) + W
      BY <1>1, <2>2, <2>5
    <3>3. x % MaxSsn = SnOf(lo + j)
      BY <2>4, SnNext
    <3> HIDE DEF x
    <3>4. x % MaxSsn <= x
      BY <1>1, <3>2, ModBelow
    <3> QED
      BY <1>1, <2>3, <2>5, <3>1, <3>2, <3>3, <3>4 DEF Beyond
  <2> QED
    BY <2>6, <2>7
<1> QED
  BY <1>2 DEF Skipped

LEMMA RecordWindow ==
  ASSUME NEW lo \in Nat \ {0}, WindowFrom(lo), NEW a, Len(a) \in Nat \ {0},
         Counts(a, lo + num), num + Len(a) <= W, Record(a), num' = num + Len(a)
  PROVE  WindowFrom(lo)'
<1>1. num \in 0 .. W /\ W \in Nat \ {0} /\ lo \in Int /\ Len(a) \in Int
  BY Sizes DEF WindowFrom
<1>2. num' \in 0 .. W /\ num' # 0
  BY <1>1
<1>3. head' = SnOf(lo)
  <2>1. head' = IF head = IllegalSn THEN SnOf(a[1]) ELSE head
    BY Zenon DEF Record
  <2>2. CASE num = 0
    <3>1. 1 \in 1 .. Len(a) /\ (lo + num) + 1 - 1 = lo
      BY <1>1, <2>2
    <3>2. a[1] = lo
      BY <3>1 DEF Counts
    <3>3. head = IllegalSn
      BY <2>2, WindowHead
    <3> QED
      BY <2>1, <3>2, <3>3
  <2>3. CASE num # 0
    <3>1. head # IllegalSn /\ head = SnOf(lo)
      BY <2>3, WindowHead DEF WindowFrom
    <3> QED
      BY <2>1, <3>1
  <2> QED
    BY <2>2, <2>3
<1>4. ASSUME NEW k \in 0 .. W - 1
      PROVE  win'[SlotOf(lo + k)] = IF k < num' THEN lo + k ELSE Null
  <2> DEFINE i    == SlotOf(lo + k)
             here == {j \in Indices(a) : SlotOf(a[j]) = i}
             pick == CHOOSE g \in here : \A j \in here : j <= g
  <2>1. i \in Slots
    BY <1>1, SnPlace
  <2>2. win'[i] = IF here = {} THEN win[i] ELSE a[pick]
    BY <2>1 DEF Record
  <2>3. win[i] = IF k < num THEN lo + k ELSE Null
    BY Zenon DEF WindowFrom
  <2>4. ASSUME NEW j \in here PROVE j = k - num + 1 /\ a[j] = lo + k
    <3> DEFINE g == num + j - 1
    <3>1. j \in 1 .. Len(a) /\ SlotOf(a[j]) = i
      BY DEF Indices
    <3>2. g \in 0 .. W - 1 /\ (lo + num) + j - 1 = lo + g
      BY <1>1, <3>1
    <3>3. a[j] = lo + g
      BY <3>1, <3>2 DEF Counts
    <3> HIDE DEF g
    <3>4. lo + g \in Int /\ lo + k \in Int /\ (lo + g) - (lo + k) < W /\ (lo + k) - (lo + g) < W
      BY <1>1, <3>2
    <3>5. lo + g = lo + k
      BY <3>1, <3>3, <3>4, SlotUnique
    <3>6. g = k
      BY <1>1, <3>2, <3>5
    <3> QED
      BY <1>1, <3>1, <3>3, <3>6 DEF g
  <2>5. CASE here = {}
    <3>1. ~ (num <= k /\ k < num')
      <4> SUFFICES ASSUME num <= k, k < num' PROVE FALSE
        OBVIOUS
      <4> DEFINE j == k - num + 1
      <4>1. j \in 1 .. Len(a) /\ (lo + num) + j - 1 = lo + k
        BY <1>1
      <4>2. a[j] = lo + k
        BY <4>1 DEF Counts
      <4> HIDE DEF j
      <4>3. j \in here
        BY <4>1, <4>2 DEF Indices
      <4> QED
        BY <2>5, <4>3
    <3>2. num < num' /\ num' \in Int /\ num \in Int /\ k \in Int
      BY <1>1
    <3>3. (k < num') = (k < num)
      BY <3>1, <3>2
    <3> HIDE DEF i, here, pick
    <3> QED
      BY <2>2, <2>3, <2>5, <3>3 DEF i
  <2>6. CASE here # {}
    <3>1. \E g \in here : \A j \in here : j <= g
      <4>1. PICK g \in here : TRUE
        BY <2>6
      <4>2. \A j \in here : j = g
        BY <2>4
      <4>3. g \in Int
        BY <1>1, <2>4
      <4>4. \A j \in here : j <= g
        BY <4>2, <4>3
      <4> QED
        BY <4>4
    <3>2. pick \in here
      BY <3>1
    <3> HIDE DEF pick, i
    <3>3. a[pick] = lo + k /\ pick = k - num + 1
      BY <2>4, <3>2
    <3>4. pick \in 1 .. Len(a)
      BY <3>2 DEF Indices
    <3>5. k < num'
      BY <1>1, <3>3, <3>4
    <3> QED
      BY <2>2, <2>6, <3>3, <3>5 DEF i
  <2> QED
    BY <2>5, <2>6
<1> QED
  BY <1>2, <1>3, <1>4, Zenon DEF WindowFrom

\* The window property itself.
LEMMA ShapeFollows ==
  ASSUME NEW lo \in Nat \ {0}, WindowFrom(lo)
  PROVE  /\ num = Cardinality(Occupied) /\ IsFiniteSet(Occupied)
         /\ (head = IllegalSn) = (num = 0)
         /\ head # IllegalSn =>
              \A k \in 0 .. num - 1 : LET f == win[SlotAt(k)]
                                     IN  f # Null /\ SnOf(f) = (head + k) % MaxSsn
<1>1. num \in 0 .. W /\ W \in Nat \ {0} /\ lo \in Int
  BY Sizes DEF WindowFrom
<1> DEFINE S == 0 .. num - 1
           g == [k \in S |-> SlotOf(lo + k)]
<1>2. \A k \in S : k \in 0 .. W - 1 /\ lo + k \in Int /\ k < num /\ lo + k # Null
  BY <1>1 DEF Null
<1>3. ASSUME NEW k \in S PROVE g[k] \in Occupied
  <2>1. win[SlotOf(lo + k)] = lo + k
    BY <1>2, Zenon DEF WindowFrom
  <2>2. SlotOf(lo + k) \in Slots
    BY <1>2, SnPlace
  <2> QED
    BY <1>2, <2>1, <2>2 DEF Occupied
<1>4. \A x \in S, y \in S : g[x] = g[y] => x = y
  <2> SUFFICES ASSUME NEW x \in S, NEW y \in S, SlotOf(lo + x) = SlotOf(lo + y) PROVE x = y
    OBVIOUS
  <2>1. (lo + x) - (lo + y) < W /\ (lo + y) - (lo + x) < W /\ lo + x \in Int /\ lo + y \in Int
    BY <1>1
  <2>2. lo + x = lo + y
    BY <2>1, SlotUnique
  <2> QED
    BY <1>1, <2>2
<1>5. \A i \in Occupied : \E k \in S : g[k] = i
  BY WindowHolds DEF Occupied
<1>6. g \in [S -> Occupied]
  BY <1>3
<1> HIDE DEF g
<1>7. ExistsBijection(S, Occupied)
  <2>1. g \in Injection(S, Occupied)
    BY <1>4, <1>6 DEF Injection, IsInjective
  <2>2. g \in Surjection(S, Occupied)
    BY <1>5, <1>6 DEF Surjection
  <2> QED
    BY <2>1, <2>2 DEF ExistsBijection, Bijection
<1>8. IsFiniteSet(S) /\ Cardinality(S) = num
  BY <1>1, FS_Interval
<1> HIDE DEF S
<1>9. IsFiniteSet(Occupied) /\ Cardinality(Occupied) = num
  BY <1>7, <1>8, FS_Bijection
<1>10. ASSUME head # IllegalSn, NEW k \in 0 .. num - 1
       PROVE  win[SlotAt(k)] # Null /\ SnOf(win[SlotAt(k)]) = (head + k) % MaxSsn
  <2>1. k \in 0 .. W - 1 /\ k < num /\ lo + k # Null /\ num # 0 /\ k \in Int
    BY <1>1 DEF Null
  <2>2. head = SnOf(lo)
    BY <2>1 DEF WindowFrom
  <2>3. SlotAt(k) = SlotOf(lo + k)
    BY <1>1, <2>1, <2>2, SlotFromHead, Zenon
  <2>4. win[SlotOf(lo + k)] = lo + k
    BY <2>1, Zenon DEF WindowFrom
  <2>5. (SnOf(lo) + k) % MaxSsn = SnOf(lo + k)
    BY <1>1, <2>1, SnNext, Zenon
  <2> QED
    BY <2>1, <2>2, <2>3, <2>4, <2>5, Zenon
<1> QED
  BY <1>9, <1>10, WindowHead

-----------------------------------------------------------------------------
(* The queues behind the window.                                           *)

LEMMA QueuedTypes ==
  ASSUME TypeOK
  PROVE  /\ early \in Seq(Seq(Frames)) /\ cur \in Seq(Frames) /\ txq \in Seq(Frames)
         /\ relq \in Seq(Frames) /\ out \in Seq(Frames)
         /\ Flatten(early) \in Seq(Frames) /\ Queued \in Seq(Frames)
         /\ Len(Queued) \in Nat /\ Len(relq) \in Nat /\ Len(out) \in Nat
<1>1. /\ early \in Seq(Seq(Frames)) /\ cur \in Seq(Frames) /\ txq \in Seq(Frames)
      /\ relq \in Seq(Frames) /\ out \in Seq(Frames)
  BY DEF TypeOK
<1>2. Flatten(early) \in Seq(Frames)
  BY <1>1, FlattenType
<1>3. cur \o txq \in Seq(Frames)
  BY <1>1, ConcatProperties
<1>4. Queued \in Seq(Frames)
  BY <1>2, <1>3, ConcatProperties DEF Queued
<1> QED
  BY <1>1, <1>2, <1>4, LenProperties

\* Frames move from ampdu_skb_tx_queue to the current aggregate and from
\* there to the early queue in their order.
LEMMA CutQueue ==
  ASSUME NEW s \in Seq(Frames), NEW n \in 0 .. Len(s)
  PROVE  SubSeq(s, 1, n) \o SubSeq(s, n + 1, Len(s)) = s
<1>1. Len(s) \in Nat
  BY LenProperties
<1>2. 1 \in 1 .. Len(s) + 1 /\ n \in 1 - 1 .. Len(s) /\ Len(s) \in n .. Len(s)
  BY <1>1
<1>3. SubSeq(s, 1, n) \o SubSeq(s, n + 1, Len(s)) = SubSeq(s, 1, Len(s))
  BY <1>2, ConcatAdjacentSubSeq, Zenon
<1> QED
  BY <1>3, SubSeqFull

LEMMA EarlyMoves ==
  ASSUME TypeOK, NEW a \in Seq(Frames), NEW b \in Seq(Frames), a \o b = cur \o txq,
         txq' = b,
         \/ early' = Append(early, a) /\ cur' = <<>>
         \/ early' = early /\ cur' = a
  PROVE  Queued' = Queued
<1>1. early \in Seq(Seq(Frames)) /\ Flatten(early) \in Seq(Frames)
  BY QueuedTypes
<1>2. CASE early' = Append(early, a) /\ cur' = <<>>
  <2>1. Queued' = Flatten(Append(early, a)) \o (<<>> \o b)
    BY <1>2, Zenon DEF Queued
  <2>2. <<>> \o b = b
    BY ConcatEmptySeq
  <2>3. Flatten(Append(early, a)) = Flatten(early) \o a
    BY <1>1, FlattenAppend
  <2>4. (Flatten(early) \o a) \o b = Flatten(early) \o (a \o b)
    BY <1>1, ConcatThree
  <2> QED
    BY <2>1, <2>2, <2>3, <2>4, Zenon DEF Queued
<1>3. CASE early' = early /\ cur' = a
  BY <1>3, Zenon DEF Queued
<1> QED
  BY <1>2, <1>3

LEMMA AggregateQueued ==
  ASSUME TypeOK, Aggregate
  PROVE  Queued' = Queued
<1>1. PICK n \in 0 .. Len(txq) :
        /\ txq' = SubSeq(txq, n + 1, Len(txq))
        /\ \/ early' = Append(early, cur \o SubSeq(txq, 1, n)) /\ cur' = <<>>
           \/ cur' = cur \o SubSeq(txq, 1, n) /\ early' = early
  BY Zenon DEF Aggregate, QueueEarly
<1> DEFINE a == SubSeq(txq, 1, n)
           b == SubSeq(txq, n + 1, Len(txq))
<1>2. cur \in Seq(Frames) /\ txq \in Seq(Frames)
  BY QueuedTypes
<1>3. a \in Seq(Frames) /\ b \in Seq(Frames) /\ a \o b = txq
  BY <1>2, PartsOfSeq, CutQueue
<1>4. cur \o a \in Seq(Frames)
  BY <1>2, <1>3, ConcatProperties
<1>5. (cur \o a) \o b = cur \o txq
  <2>1. (cur \o a) \o b = cur \o (a \o b)
    BY ZenonT(30), <1>2, <1>3, ConcatThree
  <2> QED
    BY <1>3, <2>1, Zenon
<1> HIDE DEF a, b
<1>6. /\ txq' = b
      /\ \/ early' = Append(early, cur \o a) /\ cur' = <<>>
         \/ early' = early /\ cur' = cur \o a
  BY <1>1, Zenon DEF a, b
<1> QED
  BY <1>3, <1>4, <1>5, <1>6, EarlyMoves

LEMMA FlushQueued ==
  ASSUME TypeOK, NEW t, CloseCurrent(t)
  PROVE  Queued' = Queued
<1>1. /\ txq' = txq
      /\ \/ early' = Append(early, cur) /\ cur' = <<>>
         \/ early' = early /\ cur' = cur
  BY Zenon DEF CloseCurrent, QueueEarly
<1>2. cur \in Seq(Frames) /\ txq \in Seq(Frames)
  BY QueuedTypes
<1> QED
  BY <1>1, <1>2, EarlyMoves, Zenon

LEMMA SyncQueued ==
  ASSUME TypeOK, early # <<>>, early' = Tail(early), cur' = cur, txq' = txq
  PROVE  /\ Head(early) \in Seq(Frames) /\ Queued' \in Seq(Frames)
         /\ Queued = Head(early) \o Queued'
<1> DEFINE b == cur \o txq
<1>1. early \in Seq(Seq(Frames)) /\ cur \in Seq(Frames) /\ txq \in Seq(Frames)
  BY QueuedTypes
<1>2. Head(early) \in Seq(Frames) /\ Tail(early) \in Seq(Seq(Frames))
  BY <1>1, PutBackHead
<1>3. Flatten(Tail(early)) \in Seq(Frames) /\ Flatten(early) = Head(early) \o Flatten(Tail(early))
  BY <1>1, <1>2, FlattenType, FlattenTail
<1>4. b \in Seq(Frames)
  BY <1>1, ConcatProperties
<1>5. Queued' = Flatten(Tail(early)) \o b /\ Queued = Flatten(early) \o b
  BY Zenon DEF Queued
<1> HIDE DEF b
<1>6. Flatten(Tail(early)) \o b \in Seq(Frames)
  BY <1>3, <1>4, ConcatProperties
<1>7. (Head(early) \o Flatten(Tail(early))) \o b = Head(early) \o (Flatten(Tail(early)) \o b)
  BY ZenonT(30), <1>2, <1>3, <1>4, ConcatThree
<1> QED
  BY <1>2, <1>3, <1>5, <1>6, <1>7, Zenon

LEMMA FrameQueued ==
  ASSUME TypeOK, NEW f \in Frames, txq' = Append(txq, f), cur' = cur, early' = early
  PROVE  Queued' = Append(Queued, f)
<1>1. Flatten(early) \in Seq(Frames) /\ cur \in Seq(Frames) /\ txq \in Seq(Frames)
      /\ Queued \in Seq(Frames) /\ <<f>> \in Seq(Frames)
  BY QueuedTypes
<1>2. Append(txq, f) = txq \o <<f>> /\ Append(Queued, f) = Queued \o <<f>>
  BY <1>1, AppendIsConcat
<1>3. cur \o txq \in Seq(Frames)
  BY <1>1, ConcatProperties
<1>4. cur \o (txq \o <<f>>) = (cur \o txq) \o <<f>>
  BY ZenonT(30), <1>1, ConcatThree
<1> DEFINE b == cur \o txq
           c == Flatten(early)
           u == <<f>>
<1> HIDE DEF b, c, u
<1>5. (c \o b) \o u = c \o (b \o u)
  <2>1. b \in Seq(Frames) /\ c \in Seq(Frames) /\ u \in Seq(Frames)
    BY <1>1, <1>3 DEF b, c, u
  <2> QED
    BY ZenonT(30), <2>1, ConcatThree
<1>6. Queued' = Flatten(early) \o (cur \o Append(txq, f))
  BY Zenon DEF Queued
<1> QED
  BY <1>2, <1>4, <1>5, <1>6, Zenon DEF Queued, b, c, u

\* Sequences of consecutive numbers, and of rising ones.
LEMMA CountsAppended ==
  ASSUME NEW s \in Seq(Frames), NEW n \in Int, Counts(s, n), NEW f \in Frames, f = n + Len(s)
  PROVE  Counts(Append(s, f), n)
<1>1. /\ Len(s) \in Nat /\ Len(Append(s, f)) = Len(s) + 1
      /\ \A j \in 1 .. Len(Append(s, f)) :
           \/ j \in 1 .. Len(s) /\ Append(s, f)[j] = s[j]
           \/ j = Len(s) + 1 /\ Append(s, f)[j] = f
  BY AppendPlaces
<1>2. ASSUME NEW j \in 1 .. Len(Append(s, f)) PROVE Append(s, f)[j] = n + j - 1
  <2>1. CASE j \in 1 .. Len(s) /\ Append(s, f)[j] = s[j]
    BY <2>1 DEF Counts
  <2>2. CASE j = Len(s) + 1 /\ Append(s, f)[j] = f
    BY <1>1, <2>2
  <2> QED
    BY <1>1, <2>1, <2>2
<1> QED
  BY <1>2 DEF Counts

LEMMA CountsCut ==
  ASSUME NEW s \in Seq(Frames), NEW t \in Seq(Frames), NEW n \in Int, Counts(s \o t, n)
  PROVE  Counts(s, n) /\ Counts(t, n + Len(s)) /\ Len(s \o t) = Len(s) + Len(t)
<1>1. Len(s) \in Nat /\ Len(t) \in Nat
  BY LenProperties
<1>2. /\ Len(s \o t) = Len(s) + Len(t)
      /\ \A i \in 1 .. Len(s) + Len(t) :
           (s \o t)[i] = IF i <= Len(s) THEN s[i] ELSE t[i - Len(s)]
  BY ConcatProperties
<1>3. ASSUME NEW i \in 1 .. Len(s) PROVE s[i] = n + i - 1
  <2>1. i \in 1 .. Len(s) + Len(t) /\ i <= Len(s)
    BY <1>1
  <2>2. (s \o t)[i] = n + i - 1
    BY <1>2, <2>1 DEF Counts
  <2> QED
    BY <1>2, <2>1, <2>2
<1>4. ASSUME NEW i \in 1 .. Len(t) PROVE t[i] = (n + Len(s)) + i - 1
  <2> DEFINE j == i + Len(s)
  <2>1. j \in 1 .. Len(s) + Len(t) /\ ~ (j <= Len(s)) /\ j - Len(s) = i
        /\ (n + Len(s)) + i - 1 = n + j - 1
    BY <1>1
  <2> HIDE DEF j
  <2>2. (s \o t)[j] = n + j - 1
    BY <1>2, <2>1 DEF Counts
  <2>3. (s \o t)[j] = t[i]
    BY <1>2, <2>1
  <2> QED
    BY <2>1, <2>2, <2>3
<1> QED
  BY <1>2, <1>3, <1>4 DEF Counts

LEMMA RisingJoined ==
  ASSUME NEW s \in Seq(Frames), NEW t \in Seq(Frames), NEW n \in Int,
         Rising(s), Below(s, n), Counts(t, n)
  PROVE  Rising(s \o t) /\ Below(s \o t, n + Len(t))
<1>1. Len(s) \in Nat /\ Len(t) \in Nat
  BY LenProperties
<1>2. /\ Len(s \o t) = Len(s) + Len(t)
      /\ \A i \in 1 .. Len(s) + Len(t) :
           (s \o t)[i] = IF i <= Len(s) THEN s[i] ELSE t[i - Len(s)]
  BY ConcatProperties
<1>3. ASSUME NEW i \in 1 .. Len(s) PROVE s[i] \in Int /\ s[i] < n
  <2>1. s[i] \in Frames
    BY ElementOfSeq
  <2> QED
    BY <2>1 DEF Below, Frames
<1>4. ASSUME NEW i \in 1 .. Len(s) + Len(t), ~ (i <= Len(s))
      PROVE  t[i - Len(s)] = n + (i - Len(s)) - 1
  <2>1. i - Len(s) \in 1 .. Len(t)
    BY <1>1, <1>4
  <2> QED
    BY <2>1 DEF Counts
<1>5. ASSUME NEW i \in 1 .. Len(s) + Len(t), NEW j \in 1 .. Len(s) + Len(t), i < j
      PROVE  (s \o t)[i] < (s \o t)[j]
  <2>1. CASE j <= Len(s)
    <3>1. i \in 1 .. Len(s) /\ j \in 1 .. Len(s) /\ i <= Len(s)
      BY <1>1, <1>5, <2>1
    <3>2. s[i] < s[j]
      BY <1>5, <3>1 DEF Rising
    <3> QED
      BY <1>2, <2>1, <3>1, <3>2
  <2>2. CASE i <= Len(s) /\ ~ (j <= Len(s))
    <3>1. i \in 1 .. Len(s)
      BY <1>1, <2>2
    <3>2. s[i] \in Int /\ s[i] < n /\ t[j - Len(s)] = n + (j - Len(s)) - 1
      BY <1>3, <1>4, <2>2, <3>1
    <3>3. (s \o t)[i] = s[i] /\ (s \o t)[j] = t[j - Len(s)]
      BY <1>2, <2>2
    <3> QED
      BY <1>1, <2>2, <3>2, <3>3
  <2>3. CASE ~ (i <= Len(s))
    <3>1. ~ (j <= Len(s))
      BY <1>1, <1>5, <2>3
    <3>2. (s \o t)[i] = n + (i - Len(s)) - 1 /\ (s \o t)[j] = n + (j - Len(s)) - 1
      BY <1>2, <1>4, <2>3, <3>1
    <3> QED
      BY <1>1, <1>5, <3>2
  <2> QED
    BY <2>1, <2>2, <2>3
<1>6. ASSUME NEW i \in 1 .. Len(s) + Len(t) PROVE (s \o t)[i] < n + Len(t)
  <2>1. CASE i <= Len(s)
    <3>1. i \in 1 .. Len(s)
      BY <1>1, <2>1
    <3>2. (s \o t)[i] = s[i]
      BY <1>2, <2>1
    <3> QED
      BY <1>1, <1>3, <3>1, <3>2
  <2>2. CASE ~ (i <= Len(s))
    <3>1. (s \o t)[i] = n + (i - Len(s)) - 1
      BY <1>2, <1>4, <2>2
    <3> QED
      BY <1>1, <2>2, <3>1
  <2> QED
    BY <2>1, <2>2
<1> QED
  BY <1>2, <1>5, <1>6 DEF Rising, Below

-----------------------------------------------------------------------------
(* Steps within a session, one lemma for each kind.                        *)

Advances(lo, lo2) == Consecutive(lo2)' /\ (Settled(lo) => Settled(lo2)')

\* A frame the TX task has checked stays the one to be queued.
TxKeeps == pc["tx"] = "queue" => pc'["tx"] = "queue"

LEMMA OrderSame ==
  ASSUME NEW lo, Consecutive(lo), Queued' = Queued, TxKeeps,
         UNCHANGED <<next, last, win, num, head, relq, cnt, out, lost>>
  PROVE  Advances(lo, lo)
<1>1. WindowFrom(lo)'
  BY DEF WindowFrom, Consecutive
<1>2. QueuedFrom(lo + num)'
  <2>1. QueuedFrom(lo + num) /\ (lo + num)' = lo + num
    BY DEF Consecutive
  <2>2. (last # NoSeq => LastFrom(lo + num))'
    BY <2>1 DEF QueuedFrom, LastFrom, TxKeeps
  <2> QED
    BY <2>1, <2>2 DEF QueuedFrom
<1>3. Released(lo)' /\ (last' = NoSeq => Untouched')
  BY DEF Released, Untouched, Consecutive
<1>4. Settled(lo) => Settled(lo)'
  BY DEF Settled
<1> QED
  BY <1>1, <1>2, <1>3, <1>4 DEF Advances, Consecutive

\* A frame that bypasses the session.
LEMMA OrderBypass ==
  ASSUME NEW lo \in Nat \ {0}, TypeOK, Consecutive(lo), TxBypass
  PROVE  Advances(lo, lo)
<1>1. /\ next' = next + 1
      /\ UNCHANGED <<last, txq, cur, early, win, num, head, relq, cnt, out, lost>>
  BY Zenon DEF TxBypass, queueVars, winVars, history
<1>2. Queued' = Queued
  BY <1>1 DEF Queued
<1>3. next \in Int /\ num \in Int /\ Len(Queued) \in Int
  BY QueuedTypes DEF TypeOK
<1>4. WindowFrom(lo)'
  BY <1>1 DEF WindowFrom, Consecutive
<1>5. QueuedFrom(lo + num)'
  <2>1. (lo + num) + Len(Queued) <= next + 1
    BY <1>3 DEF QueuedFrom, Consecutive
  <2>2. pc["tx"] # "queue"
    BY DEF TxBypass
  <2>3. (last # NoSeq => LastFrom(lo + num))'
    BY <1>1, <1>2, <2>2 DEF QueuedFrom, LastFrom, Consecutive
  <2>4. Counts(Queued, lo + num)
    BY DEF QueuedFrom, Consecutive
  <2> QED
    BY <1>1, <1>2, <2>1, <2>3, <2>4 DEF QueuedFrom
<1>6. Released(lo)' /\ (last' = NoSeq => Untouched')
  BY <1>1, <1>2 DEF Released, Untouched, Consecutive
<1>7. Settled(lo) => Settled(lo)'
  BY <1>1, <1>2 DEF Settled
<1> QED
  BY <1>4, <1>5, <1>6, <1>7 DEF Advances, Consecutive

\* The first frame of a session determines where the window will begin.
LEMMA WindowMoves ==
  ASSUME NEW lo \in Nat \ {0}, WindowFrom(lo), num = 0, NEW g \in Nat \ {0}
  PROVE  WindowFrom(g)
<1>1. ASSUME NEW k \in 0 .. W - 1 PROVE win[SlotOf(g + k)] = Null
  <2>1. SlotOf(g + k) \in Slots
    BY SnPlace
  <2> SUFFICES ASSUME win[SlotOf(g + k)] # Null PROVE FALSE
    OBVIOUS
  <2>2. \E j \in 0 .. num - 1 : SlotOf(g + k) = SlotOf(lo + j)
    BY <2>1, WindowHolds
  <2> QED
    BY <2>2
<1> QED
  BY <1>1 DEF WindowFrom

\* A frame that continues the sequence is checked.
LEMMA OrderCheck ==
  ASSUME NEW lo \in 1 .. NumFrames + 1, TypeOK, Consecutive(lo), TxCheck
  PROVE  \E lo2 \in 1 .. NumFrames + 1 : Advances(lo, lo2)
<1>0. lo \in Nat \ {0} /\ lo \in Int
  OBVIOUS
<1>1. /\ pc["tx"] = "idle" /\ next \in Frames /\ Contiguous(next)
      /\ last' = SnOf(next) /\ Goto("tx", "queue")
      /\ UNCHANGED <<next, txq, cur, early, win, num, head, relq, cnt, out, lost>>
  BY Zenon DEF TxCheck, queueVars, winVars, history
<1>2. pc'["tx"] = "queue"
  BY <1>1 DEF Goto, TypeOK, Ctx
<1>3. Queued' = Queued
  BY <1>1 DEF Queued
<1>4. /\ next \in 1 .. NumFrames /\ NumFrames \in Nat /\ num \in 0 .. W /\ W \in Nat
      /\ Queued \in Seq(Frames) /\ Len(Queued) \in Nat
  BY <1>1, Sizes, QueuedTypes DEF Frames, Consecutive, WindowFrom
<1>5. last' # NoSeq
  <2>0. next \in Int
    BY <1>4
  <2>1. SnOf(next) \in 0 .. MaxSsn - 1
    BY <2>0, SnPlace
  <2> QED
    BY <1>1, <2>1 DEF NoSeq
<1>6. ASSUME NEW g \in Nat \ {0}, lo <= g, WindowFrom(g), Counts(Queued, g + num),
             (g + num) + Len(Queued) = next
      PROVE  Advances(lo, g)
  <2>1. WindowFrom(g)'
    BY <1>1, <1>6 DEF WindowFrom
  <2>2. QueuedFrom(g + num)'
    <3>1. (g + num)' = g + num
      BY <1>1
    <3>2. LastFrom(g + num)'
      BY <1>1, <1>2, <1>3, <1>6, <3>1 DEF LastFrom
    <3>3. (g + num) + Len(Queued) <= next
      BY <1>4, <1>6
    <3> QED
      BY <1>1, <1>3, <1>6, <3>1, <3>2, <3>3 DEF QueuedFrom
  <2>3. ASSUME NEW s \in Seq(Frames), Below(s, lo) PROVE Below(s, g)
    <3>1. ASSUME NEW i \in 1 .. Len(s) PROVE s[i] < g
      <4>1. s[i] \in Frames
        BY ElementOfSeq
      <4> QED
        BY <1>0, <1>6, <2>3, <4>1 DEF Below, Frames
    <3> QED
      BY <3>1 DEF Below
  <2>4. relq \in Seq(Frames) /\ out \o relq \in Seq(Frames)
    BY QueuedTypes, ConcatProperties
  <2>5. Released(g)'
    BY <1>1, <2>3, <2>4 DEF Released, Consecutive
  <2>6. Settled(lo) => Settled(g)'
    BY <1>1, <1>3, <2>3, <2>4 DEF Settled
  <2> QED
    BY <1>5, <2>1, <2>2, <2>5, <2>6 DEF Advances, Consecutive
<1>7. CASE last = NoSeq
  <2>1. num = 0 /\ Queued = <<>> /\ Len(Queued) = 0
    BY <1>7, EmptySeq DEF Consecutive, Untouched
  <2>2. next \in Nat \ {0} /\ lo <= next /\ (next + num) + Len(Queued) = next
    BY <1>0, <1>4, <2>1 DEF Consecutive, QueuedFrom
  <2>3. WindowFrom(next)
    BY <1>0, <2>1, <2>2, WindowMoves DEF Consecutive
  <2>4. Counts(Queued, next + num)
    BY <2>1 DEF Counts
  <2>5. Advances(lo, next)
    <3> DEFINE g == next
    <3>1. g \in Nat \ {0} /\ lo <= g /\ WindowFrom(g) /\ Counts(Queued, g + num)
          /\ (g + num) + Len(Queued) = next
      BY <2>2, <2>3, <2>4
    <3>2. \A x : x = g => Advances(lo, x)
      <4> SUFFICES ASSUME NEW x, x = g PROVE Advances(lo, x)
        OBVIOUS
      <4>1. x \in Nat \ {0} /\ lo <= x /\ WindowFrom(x) /\ Counts(Queued, x + num)
            /\ (x + num) + Len(Queued) = next
        BY <3>1
      <4> QED
        BY <1>6, <4>1
    <3> QED
      BY <3>2
  <2> QED
    BY <1>4, <2>5
<1>8. CASE last # NoSeq
  <2> DEFINE m == lo + num
             e == m + Len(Queued)
  <2>1. m \in Nat \ {0} /\ e \in Nat \ {0} /\ e - 1 \in Int /\ e \in Int
        /\ (e - 1) + 1 = e /\ next \in Int
    BY <1>0, <1>4
  <2>2. Counts(Queued, m) /\ e <= next /\ last = SnOf(e - 1)
    <3>1. Counts(Queued, m) /\ e <= next /\ (last # NoSeq => LastFrom(m))
      BY DEF Consecutive, QueuedFrom
    <3>2. LastFrom(m)
      BY <1>8, <3>1, Zenon
    <3>3. pc["tx"] # "queue"
      BY <1>1
    <3>4. last = SnOf(m + Len(Queued) - 1)
      <4>1. \A n : LastFrom(n) => last = SnOf(n + Len(Queued) - 1)
        BY <3>3 DEF LastFrom
      <4> HIDE DEF m, e
      <4> QED
        BY <3>2, <4>1, Zenon
    <3>5. e - 1 = m + Len(Queued) - 1
      BY <1>4, <2>1
    <3>6. last = SnOf(e - 1)
      BY <3>4, <3>5, Zenon
    <3> HIDE DEF e
    <3> QED
      BY <3>1, <3>6, Zenon
  <2>3. next - e < MaxSsn /\ e - next < MaxSsn
    BY <1>4, <2>1, <2>2, Sizes
  <2>4. SnOf(next) = (last + 1) % MaxSsn
    BY <1>1, <1>8 DEF Contiguous
  <2> HIDE DEF e
  <2>5. (SnOf(e - 1) + 1) % MaxSsn = SnOf((e - 1) + 1)
    <3>1. 1 \in Int
      OBVIOUS
    <3> QED
      BY <2>1, <3>1, SnNext, Zenon
  <2>6. SnOf(next) = SnOf(e)
    BY <2>1, <2>2, <2>4, <2>5, Zenon
  <2>7. next = e
    BY <2>1, <2>3, <2>6, SnUnique, Zenon
  <2>8. WindowFrom(lo) /\ lo <= lo
    BY <1>0 DEF Consecutive
  <2>9. Advances(lo, lo)
    BY <1>0, <1>6, <2>2, <2>7, <2>8 DEF e
  <2> QED
    BY <2>9
<1> QED
  BY <1>7, <1>8

\* The frame joins the queue of the session it was checked for.
LEMMA OrderQueue ==
  ASSUME NEW lo \in Nat \ {0}, TypeOK, Consecutive(lo), TxQueue, last = SnOf(next)
  PROVE  Advances(lo, lo)
<1> DEFINE m == lo + num
           e == m + Len(Queued)
<1>1. /\ next \in Frames /\ txq' = Append(txq, next) /\ cnt' = cnt + 1 /\ next' = next + 1
      /\ UNCHANGED <<last, cur, early, win, num, head, relq, out, lost>>
  BY Zenon DEF TxQueue
<1>2. Queued' = Append(Queued, next)
  BY <1>1, FrameQueued
<1>3. /\ next \in 1 .. NumFrames /\ NumFrames \in Nat /\ num \in 0 .. W /\ W \in Nat
      /\ Queued \in Seq(Frames) /\ Len(Queued) \in Nat /\ Len(relq) \in Nat /\ cnt \in Int
  BY <1>1, Sizes, QueuedTypes DEF Frames, Consecutive, WindowFrom, TypeOK
<1>4. Len(Queued') = Len(Queued) + 1
  BY <1>2, <1>3, AppendPlaces
<1>5. last # NoSeq
  <2>1. SnOf(next) \in 0 .. MaxSsn - 1
    BY <1>3, SnPlace
  <2> QED
    BY <2>1 DEF NoSeq
<1>6. m \in Nat \ {0} /\ m \in Int /\ e \in Int /\ e - 1 \in Int /\ e <= next /\ next \in Int
      /\ Counts(Queued, m) /\ LastFrom(m)
  BY <1>3, <1>5 DEF Consecutive, QueuedFrom
<1>7. next = e
  <2>1. CASE last = SnOf(e - 1)
    <3>1. next - (e - 1) < MaxSsn /\ (e - 1) - next < MaxSsn
      BY <1>3, <1>6, Sizes
    <3>2. SnOf(next) = SnOf(e - 1)
      BY <2>1
    <3> HIDE DEF e
    <3>3. next = e - 1
      BY <1>6, <3>1, <3>2, SnUnique, Zenon
    <3> QED
      BY <1>6, <3>3
  <2> QED
    BY <1>6, <2>1 DEF LastFrom
<1>8. Counts(Append(Queued, next), m)
  <2>1. next \in Frames /\ m \in Int /\ next = m + Len(Queued)
    BY <1>1, <1>6, <1>7
  <2> HIDE DEF m
  <2> QED
    BY <1>3, <1>6, <2>1, CountsAppended
<1>9. WindowFrom(lo)'
  BY <1>1 DEF WindowFrom, Consecutive
<1>10. QueuedFrom(lo + num)'
  <2>1. m + (Len(Queued) + 1) <= next + 1 /\ m + (Len(Queued) + 1) - 1 = next
    BY <1>3, <1>6, <1>7
  <2>2. (lo + num)' = m
    BY <1>1
  <2>3. LastFrom(lo + num)'
    BY <1>1, <1>4, <2>1, <2>2 DEF LastFrom
  <2>4. m + Len(Queued') <= next'
    BY <1>1, <1>4, <2>1
  <2>5. Counts(Queued', m)
    BY <1>2, <1>8
  <2> QED
    BY <2>2, <2>3, <2>4, <2>5 DEF QueuedFrom
<1>11. Released(lo)'
  BY <1>1 DEF Released, Consecutive
<1>12. Settled(lo) => Settled(lo)'
  <2> SUFFICES ASSUME Settled(lo) PROVE Settled(lo)'
    OBVIOUS
  <2>1. /\ cnt = Len(relq) + num + Len(Queued) /\ lost = {}
        /\ Rising(out \o relq) /\ Below(out \o relq, lo)
    BY Zenon DEF Settled
  <2>2. cnt' = Len(relq) + num + Len(Queued')
    BY <1>1, <1>3, <1>4, <2>1
  <2> QED
    BY <1>1, <2>1, <2>2 DEF Settled
<1> QED
  BY <1>1, <1>5, <1>9, <1>10, <1>11, <1>12 DEF Advances, Consecutive

\* The head of the early queue enters the window.
LEMMA OrderSync ==
  ASSUME NEW lo \in Nat \ {0}, TypeOK, Consecutive(lo), NEW t, FlushSync(t)
  PROVE  Advances(lo, lo)
<1> DEFINE a == Head(early)
<1>1. /\ early # <<>> /\ early' = Tail(early) /\ CanFlush(a)
      /\ IF Empty(a) \/ Skipped(a)
         THEN UNCHANGED <<win, num, st, head>>
         ELSE Record(a) /\ num' = num + Len(a)
      /\ UNCHANGED <<next, last, txq, cur, relq, cnt, out, lost, pc>>
  BY Zenon DEF FlushSync, Empty, history
<1>2. a \in Seq(Frames) /\ Queued' \in Seq(Frames) /\ Queued = a \o Queued'
  BY <1>1, SyncQueued
<1> HIDE DEF a
<1>3. Len(a) \in Nat /\ Len(Queued') \in Nat /\ Len(Queued) \in Nat
  BY <1>2, QueuedTypes, LenProperties
<1>4. num \in 0 .. W /\ W \in Nat /\ lo \in Int /\ lo + num \in Int
  BY Sizes DEF Consecutive, WindowFrom
<1>5. WindowFrom(lo) /\ QueuedFrom(lo + num) /\ Released(lo)
      /\ (last = NoSeq => Untouched)
  BY Zenon DEF Consecutive
<1>6. Counts(Queued, lo + num)
  BY <1>5 DEF QueuedFrom
<1>7. /\ Counts(a, lo + num) /\ Counts(Queued', (lo + num) + Len(a))
      /\ Len(Queued) = Len(a) + Len(Queued')
  <2> DEFINE q == Queued'
             m == lo + num
  <2>1. a \in Seq(Frames) /\ q \in Seq(Frames) /\ m \in Int /\ Counts(a \o q, m)
        /\ Queued = a \o q
    BY <1>2, <1>4, <1>6
  <2> HIDE DEF q, m
  <2>2. Counts(a, m) /\ Counts(q, m + Len(a)) /\ Len(a \o q) = Len(a) + Len(q)
    BY <2>1, CountsCut, Zenon
  <2> QED
    BY <2>1, <2>2 DEF q, m
<1>8. WindowFrom(lo)' /\ num' = num + Len(a)
  <2>1. CASE Empty(a)
    <3>1. Len(a) = 0
      BY <2>1, EmptySeq DEF Empty
    <3>2. UNCHANGED <<win, num, head>>
      BY <1>1, <2>1
    <3> QED
      BY <1>4, <1>5, <3>1, <3>2 DEF WindowFrom
  <2>2. CASE ~ Empty(a)
    <3>1. Len(a) \in Nat \ {0}
      BY <1>2, <2>2, EmptySeq DEF Empty
    <3>2. num + Len(a) <= W
      BY <1>1, <1>3, <1>4, <2>2 DEF CanFlush, HasRoom
    <3>3. ~ Skipped(a)
      BY <1>3, <1>5, <1>7, <3>2, NotSkipped
    <3>4. Record(a) /\ num' = num + Len(a)
      BY <1>1, <2>2, <3>3
    <3>5. WindowFrom(lo)'
      BY <1>5, <1>7, <3>1, <3>2, <3>4, RecordWindow
    <3> QED
      BY <3>4, <3>5
  <2> QED
    BY <2>1, <2>2
<1>9. QueuedFrom(lo + num)'
  <2>1. lo + (num + Len(a)) = (lo + num) + Len(a)
        /\ (lo + num) + Len(a) + Len(Queued') = (lo + num) + Len(Queued)
    BY <1>3, <1>4, <1>7
  <2>2. (lo + num)' = (lo + num) + Len(a)
    BY <1>8, <2>1
  <2>3. (lo + num) + Len(Queued) <= next /\ (last # NoSeq => LastFrom(lo + num))
    BY <1>5 DEF QueuedFrom
  <2>4. Counts(Queued', (lo + num)') /\ (lo + num)' + Len(Queued') <= next
        /\ (last # NoSeq => LastFrom(lo + num)')
    <3>1. (lo + num)' + Len(Queued') = (lo + num) + Len(Queued)
      BY <2>1, <2>2, Zenon
    <3>2. Counts(Queued', (lo + num)')
      BY <1>7, <2>2, Zenon
    <3>3. (lo + num)' + Len(Queued') <= next
      BY <2>3, <3>1
    <3>4. (lo + num)' + Len(Queued') - 1 = (lo + num) + Len(Queued) - 1
      <4>1. (lo + num)' \in Int
        BY <1>3, <1>4, <2>2
      <4> QED
        BY <1>3, <1>4, <3>1, <4>1
    <3>5. last # NoSeq => LastFrom(lo + num)'
      BY <1>1, <2>3, <3>1, <3>4 DEF LastFrom
    <3> QED
      BY <3>2, <3>3, <3>5
  <2> QED
    BY <1>1, <2>4 DEF QueuedFrom
<1>10. Released(lo)'
  BY <1>1, <1>5 DEF Released
<1>11. last' = NoSeq => Untouched'
  <2> SUFFICES ASSUME last = NoSeq PROVE Untouched'
    BY <1>1
  <2>1. num = 0 /\ Queued = <<>> /\ relq = <<>> /\ Len(Queued) = 0
    BY <1>5, EmptySeq DEF Untouched
  <2>2. Len(a) = 0 /\ Len(Queued') = 0
    BY <1>3, <1>7, <2>1
  <2>3. Queued' = <<>>
    BY <1>2, <2>2, EmptySeq
  <2>4. num' = 0 /\ relq' = <<>>
    BY <1>1, <1>8, <2>1, <2>2
  <2> QED
    BY <2>3, <2>4 DEF Untouched
<1>12. Settled(lo) => Settled(lo)'
  <2> SUFFICES ASSUME Settled(lo) PROVE Settled(lo)'
    OBVIOUS
  <2>1. /\ cnt = Len(relq) + num + Len(Queued) /\ lost = {}
        /\ Rising(out \o relq) /\ Below(out \o relq, lo)
    BY Zenon DEF Settled
  <2>2. Len(relq) \in Int
    BY QueuedTypes
  <2>3. cnt = Len(relq) + num' + Len(Queued')
    BY <1>3, <1>4, <1>7, <1>8, <2>1, <2>2
  <2> QED
    BY <1>1, <2>1, <2>3 DEF Settled
<1> QED
  BY <1>8, <1>9, <1>10, <1>11, <1>12 DEF Advances, Consecutive

\* The first frames of the window leave it: the next one begins it.
LEMMA OrderRelease ==
  ASSUME NEW lo \in Nat \ {0}, lo <= NumFrames + 1, TypeOK, Consecutive(lo), TxKeeps,
         NEW t, NEW to, Release(t, to)
  PROVE  \E lo2 \in 1 .. NumFrames + 1 : Advances(lo, lo2)
<1>1. PICK n \in 0 .. W : /\ Leading(n) /\ ReleaseFrames(n)
                          /\ relq' = relq \o ReleasedSeq(n)
  BY Zenon DEF Release, ReleaseFrames
<1>2. UNCHANGED <<next, last, txq, cur, early, cnt, out, lost>>
  BY Zenon DEF Release, queueVars, history
<1>3. Queued' = Queued
  BY <1>2 DEF Queued
<1>4. WindowFrom(lo) /\ QueuedFrom(lo + num) /\ Released(lo)
      /\ (last = NoSeq => Untouched)
  BY Zenon DEF Consecutive
<1>5. num \in 0 .. W /\ W \in Nat /\ lo \in Int /\ n \in 0 .. num
  <2>1. n <= num
    BY <1>1, <1>4, PrefixLength
  <2> QED
    BY <1>4, <2>1, Sizes DEF WindowFrom
<1> DEFINE r == ReleasedSeq(n)
           g == lo + n
<1>6. r \in Seq(Frames) /\ Len(r) = n /\ Counts(r, lo)
  BY <1>1, <1>4, <1>5, ReleaseTypes, PrefixFrames
<1> HIDE DEF r
<1>7. WindowFrom(g)'
  BY <1>1, <1>4, <1>5, ReleaseWindow
<1>8. num' = num - n /\ g + num' = lo + num
  BY <1>1, <1>5 DEF ReleaseFrames
<1>9. QueuedFrom(g + num)'
  <2>1. QueuedFrom(lo + num)
    BY <1>4
  <2>2. (g + num)' = lo + num
    BY <1>8
  <2> HIDE DEF g
  <2>3. (last # NoSeq => LastFrom(g + num))'
    BY <1>2, <1>3, <2>1, <2>2 DEF QueuedFrom, LastFrom, TxKeeps
  <2> QED
    BY <1>2, <1>3, <2>1, <2>2, <2>3 DEF QueuedFrom
<1>10. relq \in Seq(Frames) /\ out \in Seq(Frames) /\ relq' = relq \o r
       /\ out \o relq \in Seq(Frames)
       /\ out \o relq' = (out \o relq) \o r /\ Len(relq') = Len(relq) + n /\ Len(relq) \in Nat
       /\ Len(Queued) \in Nat
  <2>1. relq \in Seq(Frames) /\ out \in Seq(Frames) /\ relq' = relq \o r /\ Len(relq) \in Nat
        /\ Len(Queued) \in Nat
    BY <1>1, QueuedTypes DEF r
  <2>2. out \o relq \in Seq(Frames) /\ Len(relq \o r) = Len(relq) + Len(r)
    BY <1>6, <2>1, ConcatProperties
  <2>3. (out \o relq) \o r = out \o (relq \o r)
    BY ZenonT(30), <1>6, <2>1, ConcatThree
  <2> QED
    BY <1>6, <2>1, <2>2, <2>3
<1>11. Released(g)'
  <2>1. Rising(relq) /\ Below(relq, lo)
    BY <1>4 DEF Released
  <2>2. Rising(relq \o r) /\ Below(relq \o r, lo + Len(r))
    BY <1>5, <1>6, <1>10, <2>1, RisingJoined, Zenon
  <2> QED
    BY <1>6, <1>10, <2>2 DEF Released
<1>12. last' = NoSeq => Untouched'
  <2> SUFFICES ASSUME last = NoSeq PROVE Untouched'
    BY <1>2
  <2>1. num = 0 /\ Queued = <<>> /\ relq = <<>>
    BY <1>4 DEF Untouched
  <2>2. n = 0 /\ num' = 0
    <3>1. n = 0
      BY <1>5, <2>1
    <3>2. num' = 0 - 0
      BY <1>8, <2>1, <3>1, Zenon
    <3> QED
      BY <3>1, <3>2
  <2>3. r = <<>>
    BY <1>6, <2>2, EmptySeq
  <2>4. <<>> \o <<>> = <<>>
    BY EmptySeq, ConcatEmptySeq
  <2>5. relq' = <<>>
    BY <1>10, <2>1, <2>3, <2>4
  <2> QED
    BY <1>3, <2>1, <2>2, <2>5 DEF Untouched
<1>13. Settled(lo) => Settled(g)'
  <2> SUFFICES ASSUME Settled(lo) PROVE Settled(g)'
    OBVIOUS
  <2>1. /\ cnt = Len(relq) + num + Len(Queued) /\ lost = {}
        /\ Rising(out \o relq) /\ Below(out \o relq, lo)
    BY Zenon DEF Settled
  <2>2. cnt = Len(relq') + num' + Len(Queued)
    BY <1>5, <1>8, <1>10, <2>1
  <2> DEFINE s == out \o relq
  <2>3. s \in Seq(Frames) /\ Rising(s) /\ Below(s, lo)
    BY <1>10, <2>1
  <2> HIDE DEF s
  <2>4. Rising(s \o r) /\ Below(s \o r, lo + Len(r))
    BY <1>5, <1>6, <2>3, RisingJoined, Zenon
  <2>5. Rising(out \o relq') /\ Below(out \o relq', g)
    BY <1>6, <1>10, <2>4 DEF s
  <2> QED
    BY <1>2, <1>3, <2>1, <2>2, <2>5 DEF Settled
<1>14. g \in 1 .. NumFrames + 1
  <2>1. (lo + num) + Len(Queued) <= next /\ next <= NumFrames + 1 /\ next \in Int
    BY <1>4, Sizes DEF QueuedFrom, TypeOK
  <2> QED
    BY <1>5, <1>10, <2>1, Sizes
<1>15. Advances(lo, g)
  <2> HIDE DEF g
  <2> QED
    BY <1>7, <1>9, <1>11, <1>12, <1>13 DEF Advances, Consecutive
<1> QED
  BY <1>14, <1>15, Zenon

\* The frame of the retry queue is still in the window: it is not put there
\* a second time.
LEMMA OrderRetry ==
  ASSUME NEW lo \in Nat \ {0}, TypeOK, Consecutive(lo), RetryInv, strays = {}, state # "STOP",
         RetryTake
  PROVE  Advances(lo, lo) /\ win' = win /\ retryq' = <<>>
<1>1. /\ head # IllegalSn
      /\ UNCHANGED <<next, last, txq, cur, early, num, relq, cnt, out, lost, pc>>
  BY Zenon DEF RetryTake, queueVars, history
<1>2. PICK n \in 1 .. Len(retryq) :
        /\ retryq' = SubSeq(retryq, n + 1, Len(retryq)) /\ Record(SubSeq(retryq, 1, n))
  BY Zenon DEF RetryTake
<1>3. retryq \in Seq(Frames) /\ Len(retryq) \in Nat /\ Len(retryq) <= 1
      /\ \A i \in 1 .. Len(retryq) : InWindow(retryq[i])
  BY LenProperties DEF TypeOK, RetryInv
<1>4. n = 1 /\ Len(retryq) = 1
  <2> DEFINE len == Len(retryq)
  <2>1. n \in 1 .. len /\ len \in Nat /\ len <= 1
    BY <1>3
  <2> HIDE DEF len
  <2>2. n = 1 /\ len = 1
    BY <2>1
  <2> QED
    BY <2>2 DEF len
<1>5. SubSeq(retryq, 1, n) = retryq
  BY <1>3, <1>4, SubSeqFull
<1>r. Record(retryq)
  BY <1>2, <1>5, Zenon
<1>6. retryq' = <<>>
  <2>1. SubSeq(retryq, 2, 1) = <<>>
    BY SubSeqEmpty
  <2> QED
    BY <1>2, <1>4, <2>1
<1> DEFINE f == retryq[1]
<1>7. f \in Frames /\ win[SlotOf(f)] = f
  BY <1>3, <1>4, ElementOfSeq DEF InWindow
<1>8. win' = win
  <2>1. ASSUME NEW i \in Slots PROVE win'[i] = win[i]
    <3> DEFINE here == {k \in Indices(retryq) : SlotOf(retryq[k]) = i}
               pick == CHOOSE k \in here : \A j \in here : j <= k
    <3>1. win'[i] = IF here = {} THEN win[i] ELSE retryq[pick]
      BY <1>r DEF Record
    <3>2. here \subseteq {1}
      BY <1>4 DEF Indices
    <3>3. CASE here = {}
      BY <3>1, <3>3
    <3>4. CASE here # {}
      <4>1. here = {1}
        BY <3>2, <3>4
      <4>2. \E k \in here : \A j \in here : j <= k
        BY <4>1
      <4>3. pick \in here
        BY <4>2
      <4>4. pick = 1
        BY <4>1, <4>3
      <4>5. SlotOf(f) = i
        BY <4>1
      <4> HIDE DEF pick, here
      <4> QED
        BY <1>7, <3>1, <3>4, <4>4, <4>5
    <3> QED
      BY <3>3, <3>4
  <2>2. win' = [i \in Slots |-> win'[i]] /\ win = [i \in Slots |-> win[i]]
    <3>1. win = [i \in Slots |-> win[i]]
      BY DEF TypeOK
    <3>2. win' = [i \in Slots |-> win'[i]]
      BY <1>r DEF Record
    <3> QED
      BY <3>1, <3>2
  <2> QED
    BY <2>1, <2>2
<1>9. head' = head
  BY <1>1, <1>r DEF Record
<1>10. Queued' = Queued
  BY <1>1 DEF Queued
<1>11. Advances(lo, lo)
  <2>1. TxKeeps
    BY <1>1 DEF TxKeeps
  <2> QED
    BY <1>1, <1>8, <1>9, <1>10, <2>1, OrderSame
<1> QED
  BY <1>6, <1>8, <1>11

\* The release queue goes to mac80211.
LEMMA OrderReport ==
  ASSUME NEW lo \in Nat \ {0}, TypeOK, Consecutive(lo), TxKeeps, Report
  PROVE  Advances(lo, lo)
<1>1. /\ out' = out \o relq /\ relq' = <<>> /\ cnt' = cnt - Len(relq)
      /\ UNCHANGED <<next, last, txq, cur, early, win, num, head, lost>>
  BY Zenon DEF Report, queueVars
<1>2. Queued' = Queued
  BY <1>1 DEF Queued
<1>3. Len(<<>>) = 0
  BY EmptySeq
<1>4. WindowFrom(lo)'
  BY <1>1 DEF WindowFrom, Consecutive
<1>5. QueuedFrom(lo + num)'
  <2>1. QueuedFrom(lo + num) /\ (lo + num)' = lo + num
    BY <1>1 DEF Consecutive
  <2>2. (last # NoSeq => LastFrom(lo + num))'
    BY <1>1, <1>2, <2>1 DEF QueuedFrom, LastFrom, TxKeeps
  <2> QED
    BY <1>1, <1>2, <2>1, <2>2 DEF QueuedFrom
<1>6. Released(lo)'
  BY <1>1, <1>3 DEF Released, Rising, Below
<1>7. last' = NoSeq => Untouched'
  BY <1>1, <1>2 DEF Untouched, Consecutive
<1>8. Settled(lo) => Settled(lo)'
  <2> SUFFICES ASSUME Settled(lo) PROVE Settled(lo)'
    OBVIOUS
  <2>1. /\ cnt = Len(relq) + num + Len(Queued) /\ lost = {}
        /\ Rising(out \o relq) /\ Below(out \o relq, lo)
    BY Zenon DEF Settled
  <2>2. Len(relq) \in Int /\ num \in Int /\ Len(Queued) \in Int /\ out \o relq \in Seq(Frames)
    BY QueuedTypes, ConcatProperties DEF TypeOK
  <2>3. (out \o relq) \o <<>> = out \o relq
    BY <2>2, ConcatEmptySeq
  <2>4. out' \o relq' = out \o relq
    BY <1>1, <2>3
  <2>5. cnt' = Len(relq') + num + Len(Queued)
    BY <1>1, <1>3, <2>1, <2>2
  <2> QED
    BY <1>1, <1>2, <2>1, <2>4, <2>5 DEF Settled
<1> QED
  BY <1>4, <1>5, <1>6, <1>7, <1>8 DEF Advances, Consecutive

-----------------------------------------------------------------------------
(* What a step leaves alone.                                               *)

\* Which context a step moves.
LEMMA GotoMoves ==
  ASSUME TypeOK, NEW t \in Ctx, NEW p, Goto(t, p)
  PROVE  /\ pc'["rx"] = IF t = "rx" THEN p ELSE pc["rx"]
         /\ pc'["rc"] = IF t = "rc" THEN p ELSE pc["rc"]
         /\ pc'["tx"] = IF t = "tx" THEN p ELSE pc["tx"]
  BY DEF TypeOK, Goto, Ctx

LEMMA Contexts ==
  "tx" \in Ctx /\ "rx" \in Ctx /\ "rc" \in Ctx /\ "tx" # "rx" /\ "tx" # "rc" /\ "rx" # "rc"
  BY DEF Ctx

\* A step that neither begins or ends a session nor takes a frame on.
OtherStep ==
  /\ state' = state /\ mac' = mac /\ last' = last
  /\ (pc'["tx"] = "queue") <=> (pc["tx"] = "queue")
  /\ strays \subseteq strays' /\ strays' \ strays \subseteq {"retry", "status"}
  /\ TxBypass \/ next' = next

LEMMA OtherSteps ==
  ASSUME TypeOK, [Next]_vars, ~ Mac, ~ TxCheck, ~ TxQueue, ~ TxRefused
  PROVE  OtherStep
<1> USE DEF vars, session, history, queueVars, winVars, chip, chipVars, walkVars, ctxVars
<1>1. ASSUME UNCHANGED <<state, mac, last, next, strays, pc>> PROVE OtherStep
  BY <1>1 DEF OtherStep
<1>2. ASSUME NEW t \in Ctx, NEW p, Goto(t, p),
             t = "tx" => pc["tx"] # "queue" /\ p # "queue",
             UNCHANGED <<state, mac, last, next, strays>>
      PROVE  OtherStep
  <2>1. (pc'["tx"] = "queue") <=> (pc["tx"] = "queue")
    BY <1>2, GotoMoves
  <2> QED
    BY <1>2, <2>1 DEF OtherStep
<1>3. CASE TxBypass
  BY <1>3 DEF TxBypass, OtherStep
<1>4. CASE Aggregate \/ AggregateNoMem \/ AggregateDone
  <2>1. PICK p : /\ Goto("tx", p) /\ p \in {"flush", "idle"} /\ pc["tx"] = "aggr"
                 /\ UNCHANGED <<state, mac, last, next, strays>>
    <3>1. pc["tx"] = "aggr" /\ (Goto("tx", "flush") \/ Goto("tx", "idle"))
      BY <1>4, Zenon DEF Aggregate, AggregateNoMem, AggregateDone
    <3>2. UNCHANGED <<state, mac, last, next, strays>>
      BY <1>4, Zenon DEF Aggregate, AggregateNoMem, AggregateDone
    <3> QED
      BY <3>1, <3>2
  <2>2. pc["tx"] # "queue" /\ p # "queue"
    BY <2>1
  <2> QED
    BY <1>2, <2>1, <2>2, Contexts
<1>5. ASSUME NEW t \in Ctx, NEW from, from \in {"idle", "tend"}, AmpduFlush(t, from)
      PROVE  OtherStep
  <2>1. Goto(t, "close") /\ UNCHANGED <<state, mac, last, next, strays>>
    BY <1>5, Zenon DEF AmpduFlush
  <2>2. pc[t] # "queue"
    BY <1>5 DEF AmpduFlush
  <2> QED
    BY <1>2, <2>1, <2>2
<1>6. ASSUME NEW t \in Ctx, CloseCurrent(t) PROVE OtherStep
  <2>1. Goto(t, "tflush") /\ UNCHANGED <<state, mac, last, next, strays>>
    BY <1>6, Zenon DEF CloseCurrent
  <2>2. pc[t] # "queue"
    BY <1>6 DEF CloseCurrent
  <2> QED
    BY <1>2, <2>1, <2>2
<1>7. ASSUME NEW t \in Ctx, FlushDone(t) PROVE OtherStep
  <2>1. Goto(t, AfterFlush(t)) /\ UNCHANGED <<state, mac, last, next, strays>>
    BY <1>7, Zenon DEF FlushDone
  <2>2. pc[t] # "queue" /\ AfterFlush(t) # "queue"
    BY <1>7 DEF FlushDone, FlushPcs, AfterFlush
  <2> QED
    BY <1>2, <2>1, <2>2
<1>8. ASSUME NEW t, FlushSync(t) PROVE OtherStep
  BY <1>1, <1>8, Zenon DEF FlushSync
<1>9. ASSUME NEW t, FlushSend(t) \/ HciSend \/ HciSendFails \/ RetrySend \/ CollectPut
      PROVE  OtherStep
  <2>1. UNCHANGED <<state, mac, last, next, pc>>
    BY <1>9, Zenon DEF FlushSend, HciSend, HciSendFails, RetrySend, CollectPut
  <2>2. (\E a : Acquire(a) \/ MarkSent(a)) \/ CollectPut
    BY <1>9, Zenon DEF FlushSend, HciSend, HciSendFails, RetrySend
  <2>3. (\E S : Overwrite(S)) \/ CollectPut
    BY <2>2, Zenon DEF Acquire, MarkSent
  <2>4. strays \subseteq strays' /\ strays' \ strays \subseteq {"retry", "status"}
    BY <2>3 DEF Overwrite, CollectPut
  <2> QED
    BY <2>1, <2>4 DEF OtherStep
<1>10. CASE AirLost \/ RxRateRpt \/ CollectLook \/ RetryTake \/ CheckPass \/ CheckExpired
  BY <1>1, <1>10, Zenon DEF AirLost, RxRateRpt, CollectLook, RetryTake, CheckPass, CheckExpired
<1>11. ASSUME NEW p, Goto("rx", p), UNCHANGED <<state, mac, last, next, strays>>
       PROVE  OtherStep
  BY <1>2, <1>11, Contexts
<1>12. CASE RxBa \/ RxNoBaEvent \/ RxRateRptNoBa
  <2>1. \E p : Goto("rx", p)
    BY <1>12, Zenon DEF RxBa, RxNoBaEvent, RxRateRptNoBa
  <2>2. UNCHANGED <<state, mac, last, next, strays>>
    BY <1>12, Zenon DEF RxBa, RxNoBaEvent, RxRateRptNoBa
  <2> QED
    BY <1>11, <2>1, <2>2
<1>13. CASE RxEnd
  <2>1. UNCHANGED <<state, mac, last, next, strays>>
    BY <1>13, Zenon DEF RxEnd
  <2>2. \E p : Goto("rx", p)
    <3>1. IF post /\ state = "OPERATION"
          THEN /\ base' = head /\ tcheck' = (head # IllegalSn)
               /\ Goto("rx", IF head = IllegalSn THEN "retry" ELSE "collect")
          ELSE Goto("rx", "idle") /\ UNCHANGED <<base, tcheck>>
      BY <1>13, Zenon DEF RxEnd
    <3> QED
      BY <3>1, Zenon
  <2> QED
    BY <1>11, <2>1, <2>2
<1>14. CASE CollectDone \/ RetryNoMem \/ RetryDone \/ Report \/ NoTimeoutFlush
  <2>1. \E p : Goto("rx", p)
    BY <1>14, Zenon DEF CollectDone, RetryNoMem, RetryDone, Report, NoTimeoutFlush
  <2>2. UNCHANGED <<state, mac, last, next, strays>>
    BY <1>14, Zenon DEF CollectDone, RetryNoMem, RetryDone, Report, NoTimeoutFlush
  <2> QED
    BY <1>11, <2>1, <2>2
<1>15. CASE CheckStart \/ CheckDone
  <2>1. \E p : Goto("rx", p)
    BY <1>15, Zenon DEF CheckStart, CheckDone
  <2>2. UNCHANGED <<state, mac, last, next, strays>>
    BY <1>15, Zenon DEF CheckStart, CheckDone
  <2> QED
    BY <1>11, <2>1, <2>2
<1>16. ASSUME NEW t \in Ctx, t # "tx", NEW p, Release(t, p) PROVE OtherStep
  <2>1. Goto(t, p) /\ UNCHANGED <<state, mac, last, next, strays>>
    BY <1>16, Zenon DEF Release
  <2> QED
    BY <1>2, <1>16, <2>1
<1>17. CASE RcNoBa
  <2>1. \E p : Goto("rc", p)
    BY <1>17, Zenon DEF RcNoBa
  <2>2. UNCHANGED <<state, mac, last, next, strays>>
    BY <1>17, Zenon DEF RcNoBa
  <2> QED
    BY <1>2, <2>1, <2>2, Contexts
<1>18. CASE UNCHANGED vars
  BY <1>1, <1>18
<1>19. CASE TxTask
  BY <1>3, <1>4, <1>5, <1>6, <1>7, <1>8, <1>9, <1>19, Contexts DEF TxTask
<1>20. CASE RxTask
  BY <1>5, <1>6, <1>7, <1>8, <1>9, <1>10, <1>13, <1>14, <1>15, <1>16, <1>20, Contexts
  DEF RxTask, ReleaseBa, ReleaseTimeout
<1>21. CASE RcWork \/ Hci \/ Chip
  BY <1>9, <1>10, <1>12, <1>16, <1>17, <1>21, Contexts DEF RcWork, ReleaseNoBa, Hci, Chip
<1> QED
  BY <1>18, <1>19, <1>20, <1>21 DEF Next

\* What has strayed is not forgotten.
LEMMA StraysStay ==
  ASSUME TypeOK, [Next]_vars PROVE strays \subseteq strays'
<1> USE DEF vars, session, history, queueVars, winVars, chip, chipVars, walkVars, ctxVars
<1>1. CASE Mac
  <2>1. strays' = strays
    BY <1>1, Zenon DEF Mac, TxStart, TxOperation, TxStop, StopMark, StopRelease, ClearTxq,
       ClearRetryq, ClearRelq, ClearEarly, ClearNext, StopEnd
  <2> QED
    BY <2>1
<1>2. CASE TxCheck \/ TxRefused
  <2>1. strays' = strays
    BY <1>2, Zenon DEF TxCheck, TxRefused
  <2> QED
    BY <2>1
<1>3. CASE TxQueue
  <2>1. strays' = IF state = "OPERATION" /\ last = SnOf(next) THEN strays
                  ELSE strays \cup {"queue"}
    BY <1>3, Zenon DEF TxQueue
  <2> QED
    BY <2>1
<1>4. CASE ~ Mac /\ ~ TxCheck /\ ~ TxRefused /\ ~ TxQueue
  BY <1>4, OtherSteps DEF OtherStep
<1> QED
  BY <1>1, <1>2, <1>3, <1>4

-----------------------------------------------------------------------------
(* The retry queue.                                                        *)

LEMMA RetryKept ==
  ASSUME RetryInv, UNCHANGED <<retryq, win, base, walk, hand, rcq>>, strays \subseteq strays',
         pc'["rx"] = pc["rx"], pc'["rc"] = pc["rc"], state' # "STOP" => state # "STOP"
  PROVE  RetryInv'
<1>1. UNCHANGED <<retryq, win, base, walk, hand, rcq>>
  OBVIOUS
<1>2. strays' = {} /\ state' # "STOP" => \A i \in 1 .. Len(retryq') : InWindow(retryq[i])'
  BY DEF RetryInv, InWindow
<1> QED
  BY <1>2 DEF RetryInv

LEMMA RetryEmpty ==
  ASSUME RetryInv, retryq' = <<>>, rcq' = rcq, pc'["rc"] = pc["rc"],
         hand' # Null => pc'["rx"] \in CollectPcs /\ walk' = 0,
         pc'["rx"] \in CollectPcs => base' # IllegalSn,
         pc'["rx"] \notin CollectPcs \cup {"check"} => walk' = 0
  PROVE  RetryInv'
<1>1. Len(<<>>) = 0
  BY EmptySeq
<1> QED
  BY <1>1 DEF RetryInv

\* Outside _collect_retry_frames and ssv6200_ampdu_send_retry it is empty.
LEMMA RetryElsewhere ==
  ASSUME RetryInv, pc["rx"] \notin CollectPcs \cup RetryPcs
  PROVE  retryq = <<>> /\ hand = Null /\ (pc["rx"] # "check" => walk = 0)
  BY DEF RetryInv

\* Behind the head _collect_retry_frames takes every frame for one outside
\* the window.
LEMMA BehindHead ==
  ASSUME base \in 0 .. MaxSsn - 1, walk \in 1 .. W - 1
  PROVE  Diff(base, WalkSsn) > W
<1>1. W \in Nat \ {0} /\ MaxSsn \in Nat \ {0} /\ 2 * W <= MaxSsn /\ 0 \in Int /\ 1 \in Int
  BY Sizes
<1>2. CASE base + walk < MaxSsn
  <2> DEFINE r == base + walk
  <2>1. r \in 0 .. MaxSsn - 1 /\ MaxSsn * 0 + r = r
    BY <1>1, <1>2
  <2>2. ~ (base >= r) /\ MaxSsn - r + base > W
    BY <1>1
  <2> HIDE DEF r
  <2>3. (MaxSsn * 0 + r) % MaxSsn = r
    BY <1>1, <2>1, ModOf, Zenon
  <2>4. WalkSsn = r
    BY <2>1, <2>3, Zenon DEF WalkSsn, r
  <2> QED
    BY <2>2, <2>4 DEF Diff
<1>3. CASE ~ (base + walk < MaxSsn)
  <2> DEFINE r == base + walk - MaxSsn
  <2>1. r \in 0 .. MaxSsn - 1 /\ MaxSsn * 1 + r = base + walk
    BY <1>1, <1>3
  <2>2. base >= r /\ base - r > W
    BY <1>1, <1>3
  <2> HIDE DEF r
  <2>3. (MaxSsn * 1 + r) % MaxSsn = r
    BY <1>1, <2>1, ModOf, Zenon
  <2>4. WalkSsn = r
    BY <2>1, <2>3, Zenon DEF WalkSsn
  <2> QED
    BY <2>2, <2>4 DEF Diff
<1> QED
  BY <1>2, <1>3

\* A frame found in RETRY is the first of the walk.
LEMMA RetryLook ==
  ASSUME TypeOK, RetryInv, CollectLook
  PROVE  RetryInv'
<1>1. /\ pc["rx"] \in CollectPcs /\ walk < W /\ hand = Null
      /\ UNCHANGED <<state, strays, win, retryq, base, rcq, pc>>
  BY Zenon DEF CollectLook, chipVars, chip, session, history
<1>2. \/ hand' = Null /\ walk' = walk + 1
      \/ hand' # Null /\ walk' = walk /\ ~ (Diff(base, WalkSsn) > W)
  <2>1. CASE win[WalkSsn % W] = Null
    BY <1>1, <2>1 DEF CollectLook
  <2>2. CASE win[WalkSsn % W] # Null
    BY <2>2 DEF CollectLook
  <2> QED
    BY <2>1, <2>2
<1>3. base \in 0 .. MaxSsn - 1 /\ walk \in 0 .. W - 1
  BY <1>1, Sizes DEF TypeOK, RetryInv
<1>4. hand' # Null => walk = 0 /\ walk' = 0
  <2>1. ~ (Diff(base, WalkSsn) > W) => walk = 0
    BY <1>3, BehindHead
  <2> QED
    BY <1>2, <2>1
<1>5. walk' = 0 => walk = 0
  BY <1>2, <1>3
<1>6. strays' = {} /\ state' # "STOP" => \A i \in 1 .. Len(retryq') : InWindow(retryq[i])'
  BY <1>1 DEF RetryInv, InWindow
<1> QED
  BY <1>1, <1>4, <1>5, <1>6 DEF RetryInv

LEMMA RetryPut ==
  ASSUME TypeOK, RetryInv, CollectPut
  PROVE  RetryInv'
<1>1. /\ pc["rx"] \in CollectPcs /\ hand # Null
      /\ retryq' = Append(retryq, hand) /\ hand' = Null /\ walk' = walk + 1
      /\ strays' = IF InWindow(hand) THEN strays ELSE strays \cup {"retry"}
      /\ UNCHANGED <<state, win, base, rcq, pc>>
  BY Zenon DEF CollectPut, chipVars, chip, session
<1>2. walk = 0 /\ retryq = <<>>
  BY <1>1 DEF RetryInv
<1>3. walk' = 1 /\ retryq' = <<hand>> /\ Len(<<hand>>) = 1 /\ <<hand>>[1] = hand
  BY <1>1, <1>2
<1>5. strays' = {} /\ state' # "STOP" => (\A i \in 1 .. Len(retryq) : InWindow(retryq[i]))'
  <2>1. \A i \in 1 .. Len(retryq') : retryq'[i] = hand
    BY <1>3
  <2>2. strays' = {} => win'[SlotOf(hand)] = hand
    BY <1>1 DEF InWindow
  <2> QED
    BY <2>1, <2>2 DEF InWindow
<1>6. Len(retryq') <= 1 /\ walk' # 0
  BY <1>3
<1> QED
  BY <1>1, <1>5, <1>6 DEF RetryInv

LEMMA RetrySync ==
  ASSUME TypeOK, RetryInv, SessionInv, NEW t, FlushSync(t)
  PROVE  RetryInv'
<1>1. UNCHANGED <<state, strays, retryq, base, walk, hand, rcq, pc>>
  BY Zenon DEF FlushSync, chipVars, chip, walkVars, session, history
<1>2. CASE state = "STOP" \/ strays # {}
  BY <1>1, <1>2 DEF RetryInv
<1>3. CASE state # "STOP" /\ strays = {}
  <2>1. PICK lo \in 1 .. NumFrames + 1 : Consecutive(lo)
    BY <1>3 DEF SessionInv
  <2>2. lo \in Nat \ {0} /\ WindowFrom(lo)
    BY <2>1 DEF Consecutive
  <2>3. WindowFrom(lo)'
    BY <2>1, <2>2, OrderSync DEF Advances, Consecutive
  <2>4. ASSUME NEW f \in Frames, InWindow(f) PROVE InWindow(f)'
    <3> DEFINE k == f - lo
    <3>0. SlotOf(f) \in Slots /\ num \in 0 .. W
      BY <2>2, SnTypes DEF WindowFrom
    <3>1. f \in lo .. lo + num - 1
      BY <2>2, <2>4, WindowKeeps
    <3>2. k \in 0 .. W - 1 /\ lo + k = f /\ f # Null
      BY <2>2, <3>0, <3>1, Sizes DEF Null
    <3>3. k < num'
      <4>1. num' \in Int /\ num <= num'
        <5>1. num' = num \/ num' = num + Len(Head(early))
          BY DEF FlushSync
        <5>2. Head(early) \in Seq(Frames)
          BY PutBackHead DEF FlushSync, Empty, TypeOK
        <5>3. Len(Head(early)) \in Nat
          BY <5>2, LenProperties
        <5> QED
          BY <3>0, <5>1, <5>3
      <4> QED
        BY <2>2, <3>0, <3>1, <4>1
    <3> HIDE DEF k
    <3>4. win'[SlotOf(lo + k)] = lo + k
      BY <2>3, <3>2, <3>3, Zenon DEF WindowFrom
    <3> QED
      BY <3>2, <3>4 DEF InWindow
  <2>5. \A i \in 1 .. Len(retryq) : retryq[i] \in Frames /\ InWindow(retryq[i])
    <3>1. retryq \in Seq(Frames)
      BY DEF TypeOK
    <3> QED
      BY <1>3, <3>1, ElementOfSeq DEF RetryInv
  <2>6. (\A i \in 1 .. Len(retryq) : InWindow(retryq[i]))'
    BY <1>1, <2>4, <2>5 DEF InWindow
  <2> QED
    BY <1>1, <2>6 DEF RetryInv
<1> QED
  BY <1>2, <1>3

LEMMA SteadyFaults ==
  Steady => "refuse" \notin Faults /\ "alloc" \notin Faults /\ "noba" \notin Faults
  BY DEF Steady

LEMMA RetryStep ==
  ASSUME Steady, TypeOK, MacStops, RetryInv, SessionInv, [Next]_vars
  PROVE  RetryInv'
<1> USE DEF vars, session, history, queueVars, winVars, chip, chipVars, walkVars, ctxVars
<1>s. strays \subseteq strays'
  BY StraysStay
<1>0. ASSUME UNCHANGED <<state, retryq, win, base, walk, hand, rcq, pc>> PROVE RetryInv'
  BY <1>0, <1>s, RetryKept
<1>a. "tx" \in Ctx /\ "rx" \in Ctx /\ "rc" \in Ctx /\ "tx" # "rx" /\ "tx" # "rc" /\ "rx" # "rc"
  BY DEF Ctx
<1>b. pc["rc"] = "idle" /\ rcq = <<>>
  BY DEF RetryInv
<1>1. CASE Mac
  <2>1. CASE TxStart
    <3>1. retryq' = <<>> /\ UNCHANGED <<rcq, pc, base, walk, hand>>
      BY <2>1, Zenon DEF TxStart
    <3> QED
      BY <3>1, RetryEmpty DEF RetryInv
  <2>2. CASE TxOperation
    <3>1. state = "START" /\ UNCHANGED <<retryq, win, base, walk, hand, rcq, pc>>
      BY <2>2, Zenon DEF TxOperation
    <3> QED
      BY <1>s, <3>1, RetryKept
  <2>3. CASE ~ (TxStart \/ TxOperation)
    <3>1. state' = "STOP"
      BY <1>1, <2>3, StopsOnly
    <3>2. UNCHANGED <<base, walk, hand, rcq, pc>>
      BY <1>1, <2>3, Zenon DEF Mac, TxStop, StopMark, StopRelease, ClearTxq, ClearRetryq,
         ClearRelq, ClearEarly, ClearNext, StopEnd
    <3>3. CASE ClearRetryq
      <4>1. retryq # <<>> /\ retryq' = Tail(retryq)
        BY <3>3, Zenon DEF ClearRetryq, Empty
      <4>2. retryq \in Seq(Frames) /\ Len(retryq) \in Nat /\ Len(retryq) <= 1
        BY LenProperties DEF TypeOK, RetryInv
      <4>3. retryq' = <<>>
        <5>1. retryq' \in Seq(Frames) /\ Len(retryq') = Len(retryq) - 1
          BY <4>1, <4>2, HeadTailProperties
        <5>2. Len(retryq') \in Nat
          BY <5>1, LenProperties
        <5>3. Len(retryq') = 0
          BY <4>2, <5>1, <5>2
        <5> QED
          BY <5>1, <5>3, EmptySeq
      <4> QED
        BY <3>2, <4>3, RetryEmpty DEF RetryInv
    <3>4. CASE ~ ClearRetryq
      <4>1. retryq' = retryq
        BY <1>1, <2>3, <3>4, Zenon DEF Mac, TxStop, StopMark, StopRelease, ClearTxq,
           ClearRelq, ClearEarly, ClearNext, StopEnd
      <4> QED
        BY <3>1, <3>2, <4>1 DEF RetryInv
    <3> QED
      BY <3>3, <3>4
  <2> QED
    BY <2>1, <2>2, <2>3
\* Steps of the TX task.
<1>2. ASSUME NEW p, Goto("tx", p), UNCHANGED <<state, retryq, win, base, walk, hand, rcq>>
      PROVE  RetryInv'
  BY <1>a, <1>s, <1>2, GotoMoves, RetryKept
<1>3. CASE TxBypass
  BY <1>0, <1>3, Zenon DEF TxBypass
<1>4. CASE TxCheck \/ TxQueue \/ Aggregate \/ AggregateNoMem \/ AggregateDone
  <2>1. \E p : Goto("tx", p)
    BY <1>4, Zenon DEF TxCheck, TxQueue, Aggregate, AggregateNoMem, AggregateDone
  <2>2. UNCHANGED <<state, retryq, win, base, walk, hand, rcq>>
    BY <1>4, Zenon DEF TxCheck, TxQueue, Aggregate, AggregateNoMem, AggregateDone
  <2> QED
    BY <1>2, <2>1, <2>2
<1>5. CASE AmpduFlush("tx", "idle") \/ CloseCurrent("tx") \/ FlushDone("tx")
  <2>1. \E p : Goto("tx", p)
    BY <1>5, Zenon DEF AmpduFlush, CloseCurrent, FlushDone
  <2>2. UNCHANGED <<state, retryq, win, base, walk, hand, rcq>>
    BY <1>5, Zenon DEF AmpduFlush, CloseCurrent, FlushDone
  <2> QED
    BY <1>2, <2>1, <2>2
<1>6. CASE TxRefused
  <2>1. "refuse" \in Faults
    BY <1>6, Zenon DEF TxRefused, Fault
  <2> QED
    BY <2>1, SteadyFaults
<1>7. ASSUME NEW t, FlushSync(t) PROVE RetryInv'
  BY <1>7, RetrySync
<1>8. ASSUME NEW t, FlushSend(t) \/ RetrySend PROVE RetryInv'
  BY <1>0, <1>8, Zenon DEF FlushSend, RetrySend
<1>9. CASE Hci
  BY <1>0, <1>9, Zenon DEF Hci, HciSend, HciSendFails
\* Steps of the RX task from where the retry queue is empty.
<1>10. ASSUME NEW p, Goto("rx", p), pc["rx"] \notin CollectPcs \cup RetryPcs,
              pc["rx"] # "check" \/ walk' = 0,
              p \notin CollectPcs \/ base' # IllegalSn, retryq' = retryq, hand' = hand,
              rcq' = rcq, walk' = walk \/ walk' = 0
       PROVE  RetryInv'
  <2>1. pc'["rx"] = p /\ pc'["rc"] = pc["rc"]
    BY <1>a, <1>10, GotoMoves
  <2>2. retryq = <<>> /\ hand = Null /\ (pc["rx"] # "check" => walk = 0)
    BY <1>10, RetryElsewhere
  <2> QED
    BY <1>10, <2>1, <2>2, RetryEmpty
<1>11. CASE RxBa
  <2>1. /\ pc["rx"] \in {"idle", "batch"}
        /\ \E p : Goto("rx", p) /\ p \in {"release", "batch"}
        /\ UNCHANGED <<retryq, walk, hand, rcq>>
    <3>1. /\ pc["rx"] \in {"idle", "batch"}
          /\ \E k : Goto("rx", IF k THEN "release" ELSE "batch")
          /\ UNCHANGED <<retryq, walk, hand, rcq>>
      BY <1>11, Zenon DEF RxBa, RxReady
    <3> QED
      BY <3>1
  <2> QED
    BY <1>10, <2>1 DEF CollectPcs, RetryPcs
<1>12. CASE RxNoBaEvent \/ RxRateRptNoBa
  <2>1. "noba" \in Faults
    BY <1>12, Zenon DEF RxNoBaEvent, RxRateRptNoBa, Fault
  <2> QED
    BY <2>1, SteadyFaults
<1>13. CASE AirLost
  BY <1>0, <1>13, Zenon DEF AirLost
<1>14. CASE ReleaseBa \/ ReleaseTimeout
  <2>1. \E p : /\ Release("rx", p) /\ p \in {"batch", "tend"}
               /\ pc["rx"] \in {"release", "trelease"}
    BY <1>14 DEF ReleaseBa, ReleaseTimeout
  <2>2. PICK p : /\ Goto("rx", p) /\ p \in {"batch", "tend"}
                 /\ pc["rx"] \in {"release", "trelease"}
                 /\ UNCHANGED <<retryq, walk, hand, rcq>>
    BY <2>1, Zenon DEF Release
  <2> QED
    BY <1>10, <2>2 DEF CollectPcs, RetryPcs
<1>15. CASE RcWork
  <2>1. pc["rc"] = "release" \/ rcq # <<>>
    BY <1>15, Zenon DEF RcWork, RcNoBa, ReleaseNoBa, Empty
  <2> QED
    BY <1>b, <2>1
<1>16. CASE RxRateRpt
  BY <1>0, <1>16, Zenon DEF RxRateRpt
<1>17. CASE RxEnd
  <2>1. pc["rx"] = "batch" /\ UNCHANGED <<retryq, walk, hand, rcq>>
    BY <1>17, Zenon DEF RxEnd
  <2>2. \E p : Goto("rx", p) /\ (p \in {"idle", "retry"} \/ base' # IllegalSn)
    <3>1. CASE post /\ state = "OPERATION"
      <4>1. base' = head /\ Goto("rx", IF head = IllegalSn THEN "retry" ELSE "collect")
        BY <1>17, <3>1, Zenon DEF RxEnd
      <4> QED
        BY <4>1
    <3>2. CASE ~ (post /\ state = "OPERATION")
      BY <1>17, <3>2 DEF RxEnd
    <3> QED
      BY <3>1, <3>2
  <2> QED
    BY <1>10, <2>1, <2>2 DEF CollectPcs, RetryPcs
<1>18. CASE CollectLook \/ CollectPut
  BY <1>18, RetryLook, RetryPut
<1>19. CASE CollectDone
  <2>1. /\ pc["rx"] \in CollectPcs /\ walk = W /\ walk' = 0
        /\ UNCHANGED <<state, strays, retryq, hand, win, rcq>>
        /\ Goto("rx", AfterCollect(pc["rx"]))
    BY <1>19, Zenon DEF CollectDone
  <2>2. pc'["rx"] \in RetryPcs /\ pc'["rc"] = pc["rc"]
        /\ pc'["rx"] \notin CollectPcs \cup {"check"}
    BY <1>a, <2>1, GotoMoves DEF AfterCollect, RetryPcs, CollectPcs
  <2>3. strays' = {} /\ state' # "STOP" => (\A i \in 1 .. Len(retryq) : InWindow(retryq[i]))'
    BY <2>1 DEF RetryInv, InWindow
  <2>4. hand = Null
    BY <2>1, Sizes DEF RetryInv
  <2> QED
    BY <2>1, <2>2, <2>3, <2>4 DEF RetryInv
<1>20. CASE RetryTake
  <2>1. /\ pc["rx"] \in RetryPcs /\ retryq # <<>>
        /\ UNCHANGED <<state, pc, base, walk, hand, rcq>>
    BY <1>20, Zenon DEF RetryTake, RetryEntered, Empty
  <2>2. retryq' = <<>>
    <3>1. PICK n \in 1 .. Len(retryq) : retryq' = SubSeq(retryq, n + 1, Len(retryq))
      BY <1>20, Zenon DEF RetryTake
    <3>2. Len(retryq) \in Nat /\ Len(retryq) <= 1
      BY LenProperties DEF TypeOK, RetryInv
    <3>3. n + 1 \in Int /\ Len(retryq) \in Int /\ Len(retryq) < n + 1
      BY <3>1, <3>2
    <3> QED
      BY <3>1, <3>3, SubSeqEmpty, Zenon
  <2> QED
    BY <2>1, <2>2, RetryEmpty DEF RetryInv
<1>21. CASE RetryNoMem
  <2>1. "alloc" \in Faults
    BY <1>21, Zenon DEF RetryNoMem, Fault
  <2> QED
    BY <2>1, SteadyFaults
<1>22. CASE RetryDone
  <2>1. /\ pc["rx"] \in RetryPcs /\ retryq = <<>> /\ UNCHANGED <<retryq, walk, hand, rcq>>
        /\ Goto("rx", AfterRetry(pc["rx"]))
    BY <1>22, Zenon DEF RetryDone, Empty
  <2>2. pc'["rx"] \notin CollectPcs /\ pc'["rc"] = pc["rc"]
    BY <1>a, <2>1, GotoMoves DEF AfterRetry, CollectPcs
  <2>3. walk = 0 /\ hand = Null
    BY <2>1 DEF RetryInv, CollectPcs, RetryPcs
  <2> QED
    BY <2>1, <2>2, <2>3, RetryEmpty
<1>23. CASE FlushDone("rx")
  <2>1. /\ pc["rx"] \in {"flush", "tflush"} /\ UNCHANGED <<retryq, walk, hand, rcq>>
        /\ Goto("rx", AfterFlush("rx"))
    BY <1>23, Zenon DEF FlushDone, FlushPcs
  <2>2. AfterFlush("rx") \notin CollectPcs
    BY DEF AfterFlush, CollectPcs
  <2> QED
    BY <1>10, <2>1, <2>2 DEF CollectPcs, RetryPcs
<1>24. CASE Report \/ NoTimeoutFlush
  <2>1. pc["rx"] \in {"report", "tend"}
    BY <1>24 DEF Report, NoTimeoutFlush
  <2>2. UNCHANGED <<retryq, walk, hand, rcq>> /\ Goto("rx", "idle")
    BY <1>24, Zenon DEF Report, NoTimeoutFlush
  <2> QED
    BY <1>10, <2>1, <2>2 DEF CollectPcs, RetryPcs
<1>25. CASE AmpduFlush("rx", "tend") \/ CloseCurrent("rx")
  <2>1. pc["rx"] \in {"tend", "close"}
    BY <1>25 DEF AmpduFlush, CloseCurrent
  <2>2. UNCHANGED <<retryq, walk, hand, rcq>> /\ (Goto("rx", "close") \/ Goto("rx", "tflush"))
    BY <1>25, Zenon DEF AmpduFlush, CloseCurrent
  <2> QED
    BY <1>10, <2>1, <2>2 DEF CollectPcs, RetryPcs
<1>26. CASE CheckStart \/ CheckDone
  <2>1. UNCHANGED <<retryq, hand, rcq>>
    BY <1>26, Zenon DEF CheckStart, CheckDone
  <2>2. CASE CheckStart
    <3>1. pc["rx"] = "idle" /\ walk' = walk
      BY <2>2, Zenon DEF CheckStart
    <3>2. Goto("rx", "tend") \/ Goto("rx", "check")
      BY <2>2, Zenon DEF CheckStart
    <3> QED
      BY <1>10, <2>1, <3>1, <3>2 DEF CollectPcs, RetryPcs
  <2>3. CASE CheckDone
    <3>1. /\ pc["rx"] = "check" /\ walk' = 0
          /\ base' = IF again THEN head ELSE IllegalSn
          /\ Goto("rx", IF again THEN (IF head = IllegalSn THEN "tretry" ELSE "tcollect")
                        ELSE IF drop THEN "trelease" ELSE "tend")
      BY <2>3, Zenon DEF CheckDone
    <3>2. \E p : Goto("rx", p) /\ (p \in {"tretry", "trelease", "tend"} \/ base' # IllegalSn)
      BY <3>1
    <3> QED
      BY <1>10, <2>1, <3>1, <3>2 DEF CollectPcs, RetryPcs
  <2> QED
    BY <1>26, <2>2, <2>3
<1>31. CASE CheckPass \/ CheckExpired
  <2>1. UNCHANGED <<retryq, hand, rcq, pc>>
    BY <1>31, Zenon DEF CheckPass, CheckExpired
  <2>2. pc["rx"] = "check"
    BY <1>31 DEF CheckPass, CheckExpired
  <2>3. retryq = <<>> /\ hand = Null
    BY <2>2, RetryElsewhere DEF CollectPcs, RetryPcs
  <2> QED
    BY <2>1, <2>2, <2>3, RetryEmpty DEF CollectPcs
<1>27. CASE UNCHANGED vars
  BY <1>0, <1>27
<1>28. CASE TxTask
  BY <1>3, <1>4, <1>5, <1>6, <1>7, <1>8, <1>28 DEF TxTask
<1>29. CASE Chip
  BY <1>11, <1>12, <1>13, <1>29 DEF Chip
<1>30. CASE RxTask
  BY <1>7, <1>8, <1>14, <1>16, <1>17, <1>18, <1>19, <1>20, <1>21, <1>22, <1>23, <1>24, <1>25,
     <1>26, <1>30, <1>31 DEF RxTask
<1> QED
  BY <1>1, <1>9, <1>15, <1>27, <1>28, <1>29, <1>30 DEF Next

-----------------------------------------------------------------------------
(* Every step keeps the order.                                             *)

LEMMA NothingQueued ==
  ASSUME early = <<>>, cur = <<>>, txq = <<>>
  PROVE  Queued = <<>> /\ Len(Queued) = 0 /\ Flatten(early) = <<>>
<1>1. <<>> \o <<>> = <<>> /\ Len(<<>>) = 0
  BY EmptySeq, ConcatEmptySeq
<1>2. Flatten(early) = <<>>
  BY FlattenEmpty
<1> QED
  BY <1>1, <1>2 DEF Queued

\* A session starts with nothing queued: its first frame is the next one.
LEMMA OrderStart ==
  ASSUME TypeOK, FreshInv, TxStart
  PROVE  SessionInv'
<1>1. PICK g : g = next
  OBVIOUS
<1>2. /\ state = "STOP" /\ last' = NoSeq /\ next' = next
      /\ txq' = <<>> /\ cur' = <<>> /\ early' = <<>>
      /\ win' = [i \in Slots |-> Null] /\ num' = 0 /\ head' = IllegalSn
      /\ relq' = <<>> /\ lost' = lost \cup (Left \ Seq2Set(out)) /\ UNCHANGED <<cnt, out>>
  BY Zenon DEF TxStart
<1>3. (Queued = <<>> /\ Len(Queued) = 0)'
  BY <1>2, NothingQueued, EmptySeq, ConcatEmptySeq, FlattenEmpty DEF Queued
<1>4. g \in 1 .. NumFrames + 1 /\ g \in Int
  BY <1>1, Sizes DEF TypeOK
<1>5. Len(<<>>) = 0 /\ <<>> \o <<>> = <<>>
  BY EmptySeq, ConcatEmptySeq
<1>6. WindowFrom(g)'
  <2>1. ASSUME NEW k \in 0 .. W - 1 PROVE win'[SlotOf(g + k)] = Null /\ ~ (k < 0)
    <3>1. SlotOf(g + k) \in Slots
      BY <1>4, Sizes, SnPlace
    <3> QED
      BY <1>2, <3>1, Sizes
  <2>2. 0 \in 0 .. W
    BY Sizes
  <2> QED
    BY <1>2, <2>1, <2>2 DEF WindowFrom
<1>7. QueuedFrom(g + num)'
  <2>1. (g + num)' = g
    BY <1>2, <1>4
  <2> QED
    BY <1>1, <1>2, <1>3, <1>4, <1>5, <2>1 DEF QueuedFrom, Counts
<1>8. Released(g)' /\ Untouched'
  BY <1>2, <1>3, <1>5 DEF Released, Rising, Below, Untouched
<1>9. "stop" \notin Faults => Settled(g)'
  <2> SUFFICES ASSUME "stop" \notin Faults PROVE Settled(g)'
    OBVIOUS
  <2>1. /\ txq = <<>> /\ cur = <<>> /\ early = <<>> /\ relq = <<>> /\ retryq = <<>>
        /\ win = [i \in Slots |-> Null] /\ out = <<>> /\ lost = {} /\ cnt = 0
    BY <1>2 DEF FreshInv
  <2>2. Seq2Set(<<>>) = {} /\ Flatten(early) = <<>> /\ Occupied = {}
    BY <1>5, <2>1, FlattenEmpty DEF Seq2Set, Occupied
  <2>3. Left = {}
    BY <2>1, <2>2 DEF Left, Held
  <2>4. out' = <<>> /\ lost' = {} /\ cnt' = 0
    BY <1>2, <2>1, <2>3
  <2> QED
    BY <1>2, <1>3, <1>5, <2>4 DEF Settled, Rising, Below
<1>10. Consecutive(g)'
  BY <1>6, <1>7, <1>8 DEF Consecutive
<1> QED
  BY <1>4, <1>9, <1>10 DEF SessionInv

LEMMA SessionStep ==
  ASSUME Steady, TypeOK, MacStops, RetryInv, SessionInv, FreshInv, [Next]_vars
  PROVE  SessionInv'
<1> USE DEF vars, session, history, queueVars, winVars, chip, chipVars, walkVars, ctxVars
<1>1. CASE TxStart
  BY <1>1, OrderStart
<1>2. CASE Mac /\ ~ TxStart /\ ~ TxOperation
  <2>1. state' = "STOP"
    BY <1>2, StopsOnly
  <2> QED
    BY <2>1 DEF SessionInv
<1>3. CASE (~ Mac \/ TxOperation) /\ ~ TxRefused
  <2>1. (state = "STOP" => state' = "STOP") /\ strays \subseteq strays'
    <3>1. strays \subseteq strays'
      BY StraysStay
    <3>2. CASE TxOperation
      <4>1. state = "START"
        BY <3>2, Zenon DEF TxOperation
      <4> QED
        BY <3>1, <4>1
    <3>3. CASE TxCheck \/ TxQueue
      <4>1. state' = state
        BY <3>3, Zenon DEF TxCheck, TxQueue
      <4> QED
        BY <3>1, <4>1
    <3>4. CASE ~ TxOperation /\ ~ TxCheck /\ ~ TxQueue
      BY <1>3, <3>1, <3>4, OtherSteps DEF OtherStep
    <3> QED
      BY <3>2, <3>3, <3>4
  <2> SUFFICES ASSUME state # "STOP", strays = {}, strays' = {} PROVE SessionInv'
    BY <2>1 DEF SessionInv
  <2>2. PICK lo \in 1 .. NumFrames + 1 :
               Consecutive(lo) /\ ("stop" \notin Faults => Settled(lo))
    BY DEF SessionInv
  <2>3. lo \in Nat \ {0} /\ lo <= NumFrames + 1
    BY Sizes
  <2> SUFFICES \E lo2 \in 1 .. NumFrames + 1 : Advances(lo, lo2)
    BY <2>2, Zenon DEF SessionInv, Advances
  <2>4. SUFFICES ASSUME ~ \E lo2 \in 1 .. NumFrames + 1 : Advances(lo, lo2)
                 PROVE  FALSE
    BY Zenon
  <2>5. ~ Advances(lo, lo)
    BY <2>4, Zenon
  <2>k. TxKeeps \/ TxQueue
    <3>1. CASE TxOperation
      BY <3>1, Zenon DEF TxOperation, TxKeeps
    <3>2. CASE TxCheck
      <4>1. pc["tx"] # "queue"
        BY <3>2 DEF TxCheck
      <4> QED
        BY <4>1 DEF TxKeeps
    <3>3. CASE ~ TxOperation /\ ~ TxCheck /\ ~ TxQueue
      BY <1>3, <3>3, OtherSteps DEF OtherStep, TxKeeps
    <3> QED
      BY <3>1, <3>2, <3>3
  <2>6. ASSUME TxKeeps,
               UNCHANGED <<next, last, txq, cur, early, win, num, head, relq, cnt, out, lost>>
        PROVE  FALSE
    <3>1. Queued' = Queued
      BY <2>6 DEF Queued
    <3> QED
      BY <2>2, <2>5, <2>6, <3>1, OrderSame
  <2>q. CASE TxQueue
    <3>1. last = SnOf(next)
      <4>1. strays' = IF state = "OPERATION" /\ last = SnOf(next) THEN strays
                      ELSE strays \cup {"queue"}
        BY <2>q, Zenon DEF TxQueue
      <4> QED
        BY <4>1
    <3> QED
      BY <2>2, <2>3, <2>5, <2>q, <3>1, OrderQueue
  <2> SUFFICES ASSUME TxKeeps PROVE FALSE
    BY <2>k, <2>q
  <2>7. CASE TxOperation
    BY <2>6, <2>7, Zenon DEF TxOperation
  <2>8. CASE UNCHANGED vars
    BY <2>6, <2>8, Zenon
  <2>9. ASSUME NEW t, FlushSync(t) PROVE FALSE
    BY <2>2, <2>3, <2>5, <2>9, OrderSync
  <2>10. ASSUME NEW t, CloseCurrent(t) PROVE FALSE
    <3>1. Queued' = Queued
      BY <2>10, FlushQueued
    <3>2. UNCHANGED <<next, last, win, num, head, relq, cnt, out, lost>>
      BY <2>10, Zenon DEF CloseCurrent
    <3> QED
      BY <2>2, <2>5, <3>1, <3>2, OrderSame
  <2>11. ASSUME NEW t, NEW from, FlushSend(t) \/ FlushDone(t) \/ AmpduFlush(t, from)
         PROVE  FALSE
    BY <2>6, <2>11, Zenon DEF FlushSend, FlushDone, AmpduFlush
  <2>12. ASSUME NEW t, NEW to, Release(t, to) PROVE FALSE
    BY <2>2, <2>3, <2>4, <2>12, OrderRelease, Zenon
  <2>13. CASE TxTask
    <3>1. CASE TxBypass
      BY <2>2, <2>3, <2>5, <3>1, OrderBypass
    <3>2. CASE TxCheck
      BY <2>2, <2>4, <3>2, OrderCheck, Zenon
    <3>4. CASE Aggregate
      <4>1. Queued' = Queued
        BY <3>4, AggregateQueued
      <4>2. UNCHANGED <<next, last, win, num, head, relq, cnt, out, lost>>
        BY <3>4, Zenon DEF Aggregate
      <4> QED
        BY <2>2, <2>5, <4>1, <4>2, OrderSame
    <3>5. CASE AggregateNoMem \/ AggregateDone
      BY <2>6, <3>5, Zenon DEF AggregateNoMem, AggregateDone
    <3> QED
      BY <1>3, <2>9, <2>10, <2>11, <2>13, <2>q, <3>1, <3>2, <3>4, <3>5, Zenon DEF TxTask
  <2>14. CASE Hci \/ Chip
    BY <2>6, <2>14, Zenon DEF Hci, HciSend, HciSendFails, Chip, RxBa, RxNoBaEvent,
       RxRateRptNoBa, AirLost
  <2>15. CASE RxTask
    <3>1. CASE ReleaseBa \/ ReleaseTimeout
      BY <2>12, <3>1, Zenon DEF ReleaseBa, ReleaseTimeout
    <3>2. CASE RxRateRpt \/ RxEnd \/ CollectLook \/ CollectPut \/ CollectDone \/ RetryNoMem
               \/ RetrySend \/ RetryDone
      BY <2>6, <3>2, Zenon DEF RxRateRpt, RxEnd, CollectLook, CollectPut, CollectDone,
         RetryNoMem, RetrySend, RetryDone
    <3>5. CASE NoTimeoutFlush \/ CheckStart \/ CheckPass \/ CheckExpired \/ CheckDone
      BY <2>6, <3>5, Zenon DEF NoTimeoutFlush, CheckStart, CheckPass, CheckExpired, CheckDone
    <3>3. CASE RetryTake
      BY <2>2, <2>3, <2>5, <3>3, OrderRetry
    <3>4. CASE Report
      BY <2>2, <2>3, <2>5, <3>4, OrderReport
    <3> QED
      BY <2>9, <2>10, <2>11, <2>15, <3>1, <3>2, <3>3, <3>4, <3>5, Zenon DEF RxTask
  <2>16. CASE RcWork
    <3>1. CASE RcNoBa
      BY <2>6, <3>1, Zenon DEF RcNoBa
    <3> QED
      BY <2>12, <2>16, <3>1, Zenon DEF RcWork, ReleaseNoBa
  <2> QED
    BY <1>3, <2>7, <2>8, <2>13, <2>14, <2>15, <2>16, Zenon DEF Next
<1>4. ~ TxRefused
  BY SteadyFaults, Zenon DEF TxRefused, Fault
<1> QED
  BY <1>1, <1>2, <1>3, <1>4

\* Before the session only a frame that bypasses it can come.
LEMMA BeforeStart ==
  ASSUME TypeOK, RetryInv, [Next]_vars, "stop" \notin Faults, FreshInv, state = "STOP"
  PROVE  TxStart \/ TxBypass \/ UNCHANGED vars
<1>1. /\ pc["tx"] = "idle" /\ pc["rx"] = "idle" /\ hciq = <<>> /\ air = <<>>
      /\ mac = "idle" /\ pc["rc"] = "idle" /\ rcq = <<>>
  BY DEF FreshInv, RetryInv
<1>2. CASE Mac
  <2>1. ~ (StopMark \/ StopRelease \/ ClearTxq \/ ClearRetryq \/ ClearRelq \/ ClearEarly
             \/ ClearNext \/ StopEnd)
    BY <1>1 DEF StopMark, StopRelease, ClearTxq, ClearRetryq, ClearRelq, ClearEarly, ClearNext,
            StopEnd
  <2>2. ~ TxOperation /\ ~ TxStop
    BY DEF TxOperation, TxStop
  <2> QED
    BY <1>2, <2>1, <2>2 DEF Mac
<1>3. ASSUME NEW t \in {"tx", "rx"}, NEW from
      PROVE  ~ (AmpduFlush(t, from) \/ CloseCurrent(t) \/ FlushSync(t) \/ FlushSend(t)
                  \/ FlushDone(t))
  <2>1. pc[t] = "idle" /\ "idle" \notin FlushPcs
    BY <1>1 DEF FlushPcs
  <2> QED
    BY <2>1 DEF AmpduFlush, CloseCurrent, FlushSync, FlushSend, FlushDone
<1>4. CASE TxTask
  <2>1. ~ (TxCheck \/ TxRefused \/ TxQueue \/ Aggregate \/ AggregateNoMem \/ AggregateDone)
    BY <1>1 DEF TxCheck, TxRefused, TxQueue, Aggregate, AggregateNoMem, AggregateDone
  <2> QED
    BY <1>3, <1>4, <2>1 DEF TxTask
<1>5. ~ Hci /\ ~ Chip
  BY <1>1 DEF Hci, HciSend, HciSendFails, Chip, RxBa, RxNoBaEvent, RxRateRptNoBa, AirLost, Empty
<1>6. ~ RxTask
  <2>1. ~ (ReleaseBa \/ RxRateRpt \/ RxEnd \/ CollectLook \/ CollectPut \/ CollectDone)
    BY <1>1 DEF ReleaseBa, RxRateRpt, RxEnd, CollectLook, CollectPut, CollectDone, CollectPcs
  <2>2. ~ (RetryTake \/ RetryNoMem \/ RetrySend \/ RetryDone \/ Report)
    BY <1>1 DEF RetryTake, RetryNoMem, RetrySend, RetryDone, Report, RetryEntered, RetryPcs
  <2>3. ~ (CheckStart \/ CheckPass \/ CheckExpired \/ CheckDone \/ ReleaseTimeout
             \/ NoTimeoutFlush)
    BY <1>1 DEF CheckStart, CheckPass, CheckExpired, CheckDone, ReleaseTimeout, NoTimeoutFlush
  <2> QED
    BY <1>3, <2>1, <2>2, <2>3 DEF RxTask
<1>7. ~ RcWork
  BY <1>1 DEF RcWork, RcNoBa, ReleaseNoBa, Empty
<1> QED
  BY <1>2, <1>4, <1>5, <1>6, <1>7 DEF Next

LEMMA FreshStep ==
  ASSUME Steady, TypeOK, RetryInv, FreshInv, [Next]_vars
  PROVE  FreshInv'
<1> USE DEF vars, session, history, queueVars, winVars, chip, chipVars, walkVars, ctxVars
<1> SUFFICES ASSUME "stop" \notin Faults PROVE FreshInv'
  BY DEF FreshInv
<1>1. /\ mac = "idle" /\ "queue" \notin strays
      /\ pc["tx"] = "queue" => state = "OPERATION" /\ last = SnOf(next)
  BY DEF FreshInv
<1>2. CASE state = "STOP" /\ ~ TxStart
  <2>1. UNCHANGED <<state, mac, strays, pc, hciq, air, txq, cur, early, relq, retryq, win, out,
                    lost, cnt>>
    BY <1>2, BeforeStart, Zenon DEF TxBypass
  <2>2. pc["tx"] # "queue"
    BY <1>2 DEF FreshInv
  <2> QED
    BY <2>1, <2>2 DEF FreshInv
<1>3. ~ TxRefused /\ ~ TxStop
  BY SteadyFaults, Zenon DEF TxRefused, TxStop, Fault
<1>4. CASE Mac /\ (state # "STOP" \/ TxStart)
  <2>1. ~ (StopMark \/ StopRelease \/ ClearTxq \/ ClearRetryq \/ ClearRelq \/ ClearEarly
             \/ ClearNext \/ StopEnd)
    BY <1>1 DEF StopMark, StopRelease, ClearTxq, ClearRetryq, ClearRelq, ClearEarly, ClearNext,
            StopEnd
  <2>2. TxStart \/ TxOperation
    BY <1>3, <1>4, <2>1 DEF Mac
  <2>3. UNCHANGED <<mac, strays, pc>>
    BY <2>2, Zenon DEF TxStart, TxOperation
  <2>4. state' # "STOP" /\ state # "OPERATION"
    BY <2>2 DEF TxStart, TxOperation
  <2>5. pc["tx"] # "queue"
    BY <1>1, <2>4
  <2> QED
    BY <1>1, <2>3, <2>4, <2>5 DEF FreshInv
<1>5. CASE TxCheck
  <2>1. /\ state = "OPERATION" /\ last' = SnOf(next)
        /\ UNCHANGED <<state, mac, next, strays>>
    BY <1>5, Zenon DEF TxCheck
  <2>2. last' = SnOf(next')
    BY <2>1
  <2>3. (last = SnOf(next))'
    BY <2>1 DEF SnOf
  <2> QED
    BY <1>1, <2>1, <2>3 DEF FreshInv
<1>6. CASE TxQueue
  <2>1. /\ pc["tx"] = "queue" /\ Goto("tx", "aggr") /\ UNCHANGED <<state, mac>>
        /\ strays' = IF state = "OPERATION" /\ last = SnOf(next) THEN strays
                     ELSE strays \cup {"queue"}
    BY <1>6, Zenon DEF TxQueue
  <2>2. pc'["tx"] # "queue"
    BY <2>1, GotoMoves, Contexts
  <2>3. strays' = strays /\ state' # "STOP"
    BY <1>1, <2>1
  <2> QED
    BY <1>1, <2>1, <2>2, <2>3 DEF FreshInv
<1>7. CASE ~ Mac /\ state # "STOP" /\ ~ TxCheck /\ ~ TxQueue
  <2>1. OtherStep
    BY <1>3, <1>7, OtherSteps
  <2>2. state' # "STOP" /\ mac' = "idle" /\ "queue" \notin strays'
    BY <1>1, <1>7, <2>1 DEF OtherStep
  <2>3. pc'["tx"] = "queue" => state' = "OPERATION" /\ last' = SnOf(next) /\ next' = next
    <3>1. TxBypass => pc["tx"] # "queue"
      BY DEF TxBypass
    <3> QED
      BY <1>1, <2>1, <3>1 DEF OtherStep
  <2>4. pc'["tx"] = "queue" => (last = SnOf(next))'
    BY <2>3 DEF SnOf
  <2> QED
    BY <2>2, <2>3, <2>4 DEF FreshInv
<1>8. TxStart => Mac
  BY Zenon DEF Mac
<1> QED
  BY <1>2, <1>4, <1>5, <1>6, <1>7, <1>8

-----------------------------------------------------------------------------
(* What the order says.                                                    *)

OrderInv == MacStops /\ RetryInv /\ SessionInv /\ FreshInv

LEMMA OrderInit == Init => OrderInv
<1> SUFFICES ASSUME Init PROVE OrderInv
  OBVIOUS
<1>1. /\ state = "STOP" /\ mac = "idle" /\ pc = [t \in Ctx |-> "idle"] /\ retryq = <<>>
      /\ rcq = <<>> /\ walk = 0 /\ hand = Null /\ hciq = <<>> /\ air = <<>> /\ strays = {}
      /\ txq = <<>> /\ cur = <<>> /\ early = <<>> /\ relq = <<>>
      /\ win = [i \in Slots |-> Null] /\ out = <<>> /\ lost = {} /\ cnt = 0
  BY Zenon DEF Init
<1>2. pc["tx"] = "idle" /\ pc["rx"] = "idle" /\ pc["rc"] = "idle"
  BY <1>1 DEF Ctx
<1>3. Len(<<>>) = 0
  BY EmptySeq
<1>4. RetryInv
  BY <1>1, <1>2, <1>3 DEF RetryInv, CollectPcs
<1>5. FreshInv /\ MacStops /\ SessionInv
  BY <1>1, <1>2 DEF FreshInv, MacStops, SessionInv
<1> QED
  BY <1>4, <1>5 DEF OrderInv

LEMMA OrderStep ==
  Steady /\ TypeOK /\ FlowInv /\ FlowInv' /\ OrderInv /\ [Next]_vars => OrderInv'
  BY RetryStep, SessionStep, FreshStep DEF OrderInv, FlowInv

LEMMA OrderKept == ASSUME Steady PROVE Spec => []OrderInv
<1>1. TypeOK /\ FlowInv /\ FlowInv' /\ OrderInv /\ [Next]_vars => OrderInv'
  BY OrderStep
<1> QED
  BY <1>1, OrderInit, TypeCorrect, FlowAlways, PTL DEF Spec

LEMMA RisingApart ==
  ASSUME NEW s \in Seq(Frames), NEW t \in Seq(Frames), Rising(s \o t)
  PROVE  /\ \A i, j \in 1 .. Len(s) : i # j => s[i] # s[j]
         /\ Seq2Set(s) \cap Seq2Set(t) = {}
<1>1. Len(s) \in Nat /\ Len(t) \in Nat
  BY LenProperties
<1>2. /\ s \o t \in Seq(Frames) /\ Len(s \o t) = Len(s) + Len(t)
      /\ \A i \in 1 .. Len(s) + Len(t) :
           (s \o t)[i] = IF i <= Len(s) THEN s[i] ELSE t[i - Len(s)]
  BY ConcatProperties
<1>3. ASSUME NEW i \in 1 .. Len(s) + Len(t) PROVE (s \o t)[i] \in Int
  <2> DEFINE u == s \o t
  <2>1. u \in Seq(Frames) /\ i \in 1 .. Len(u)
    BY <1>2
  <2> HIDE DEF u
  <2>2. u[i] \in Frames
    BY <2>1, ElementOfSeq
  <2> QED
    BY <2>2 DEF Frames, u
<1>4. \A i, j \in 1 .. Len(s) + Len(t) : i < j => (s \o t)[i] < (s \o t)[j]
  BY <1>2 DEF Rising
<1>5. \A i, j \in 1 .. Len(s) + Len(t) : i # j => (s \o t)[i] # (s \o t)[j]
  <2> SUFFICES ASSUME NEW i \in 1 .. Len(s) + Len(t), NEW j \in 1 .. Len(s) + Len(t), i # j
               PROVE  (s \o t)[i] # (s \o t)[j]
    OBVIOUS
  <2>1. i < j \/ j < i
    BY <1>1
  <2> QED
    BY <1>3, <1>4, <2>1
<1>6. \A i \in 1 .. Len(s) : i \in 1 .. Len(s) + Len(t) /\ (s \o t)[i] = s[i]
  BY <1>1, <1>2
<1>7. ASSUME NEW i \in 1 .. Len(s), NEW j \in 1 .. Len(t) PROVE s[i] # t[j]
  <2> DEFINE m == Len(s) + j
  <2>1. m \in 1 .. Len(s) + Len(t) /\ ~ (m <= Len(s)) /\ m - Len(s) = j /\ m # i
    BY <1>1
  <2>2. (s \o t)[m] = t[j]
    BY <1>2, <2>1
  <2> HIDE DEF m
  <2> QED
    BY <1>5, <1>6, <2>1, <2>2
<1>8. \A i, j \in 1 .. Len(s) : i # j => s[i] # s[j]
  BY <1>5, <1>6
<1> QED
  BY <1>7, <1>8 DEF Seq2Set

\* The pipeline is the release queue, then the window, then what is queued:
\* it is strictly increasing.
LEMMA PipelineRises ==
  ASSUME NEW lo \in Nat \ {0}, TypeOK, Consecutive(lo)
  PROVE  /\ WindowSeq \in Seq(Frames) /\ Pipeline \in Seq(Frames)
         /\ Pipeline = (relq \o WindowSeq) \o Queued
         /\ Counts(WindowSeq, lo) /\ Len(WindowSeq) = num
         /\ Rising(Pipeline)
<1>1. WindowFrom(lo) /\ QueuedFrom(lo + num) /\ Released(lo)
  BY Zenon DEF Consecutive
<1>2. num \in 0 .. W /\ num \in 0 .. num /\ num \in Int /\ lo \in Int /\ lo + num \in Int
  BY <1>1, Sizes DEF WindowFrom
<1>3. WindowSeq = ReleasedSeq(num)
  BY Zenon DEF WindowSeq, ReleasedSeq
<1>4. Len(WindowSeq) = num /\ Counts(WindowSeq, lo)
  BY <1>1, <1>2, <1>3, PrefixFrames
<1>5. WindowSeq \in Seq(Frames)
  <2>1. ASSUME NEW i \in 1 .. num PROVE win[SlotAt(i - 1)] \in Frames
    <3>1. WindowSeq[i] = win[SlotAt(i - 1)] /\ WindowSeq[i] = lo + i - 1
      BY <1>4 DEF WindowSeq, Counts
    <3>2. SlotAt(i - 1) \in Slots
      <4>1. i - 1 \in 0 .. W - 1 /\ num # 0
        BY <1>2, Sizes
      <4>2. head = SnOf(lo)
        BY <1>1, <4>1 DEF WindowFrom
      <4>3. SlotAt(i - 1) = SlotOf(lo + (i - 1)) /\ lo + (i - 1) \in Int
        BY <1>2, <4>1, <4>2, SlotFromHead
      <4> QED
        BY <4>3, SnPlace
    <3>3. win[SlotAt(i - 1)] \in Frames \cup {Null}
      BY <3>2 DEF TypeOK
    <3>4. lo + i - 1 # Null
      BY DEF Null
    <3> QED
      BY <3>1, <3>3, <3>4
  <2>2. num \in Nat
    BY <1>2, Sizes
  <2> QED
    BY <2>1, <2>2 DEF WindowSeq
<1>6. /\ relq \in Seq(Frames) /\ cur \in Seq(Frames) /\ txq \in Seq(Frames)
      /\ Flatten(early) \in Seq(Frames) /\ Queued \in Seq(Frames)
  BY QueuedTypes
<1> DEFINE x == relq \o WindowSeq
<1>7. x \in Seq(Frames) /\ cur \o txq \in Seq(Frames) /\ x \o Flatten(early) \in Seq(Frames)
  BY <1>5, <1>6, ConcatProperties
<1>8. Rising(x) /\ Below(x, lo + num)
  <2>1. Rising(relq) /\ Below(relq, lo)
    BY <1>1 DEF Released
  <2>2. Rising(relq \o WindowSeq) /\ Below(relq \o WindowSeq, lo + Len(WindowSeq))
    BY <1>2, <1>4, <1>5, <1>6, <2>1, RisingJoined, Zenon
  <2> QED
    BY <1>4, <2>2
<1>p. Pipeline = ((x \o Flatten(early)) \o cur) \o txq
  BY Zenon DEF Pipeline
<1> HIDE DEF x
<1>9. Pipeline = x \o Queued
  <2>1. ((x \o Flatten(early)) \o cur) \o txq = (x \o Flatten(early)) \o (cur \o txq)
    <3>1. x \o Flatten(early) \in Seq(Frames) /\ cur \in Seq(Frames) /\ txq \in Seq(Frames)
      BY <1>6, <1>7, Zenon
    <3> QED
      BY ZenonT(30), <3>1, ConcatThree
  <2>2. (x \o Flatten(early)) \o (cur \o txq) = x \o (Flatten(early) \o (cur \o txq))
    <3>1. x \in Seq(Frames) /\ Flatten(early) \in Seq(Frames) /\ cur \o txq \in Seq(Frames)
      BY <1>6, <1>7, Zenon
    <3> QED
      BY ZenonT(30), <3>1, ConcatThree
  <2> QED
    BY <1>p, <2>1, <2>2, Zenon DEF Queued
<1>10. Counts(Queued, lo + num)
  BY <1>1 DEF QueuedFrom
<1>11. Rising(x \o Queued)
  BY <1>2, <1>6, <1>7, <1>8, <1>10, RisingJoined, Zenon
<1>12. x \o Queued \in Seq(Frames)
  BY <1>6, <1>7, ConcatProperties
<1> QED
  BY <1>4, <1>5, <1>9, <1>11, <1>12 DEF x

LEMMA InOrderFollows == TypeOK /\ OrderInv => InOrder
<1> SUFFICES ASSUME TypeOK, OrderInv, strays = {}, state # "STOP",
                    NEW i \in 1 .. Len(Pipeline) - 1
             PROVE  Pipeline[i] < Pipeline[i + 1]
  BY Zenon DEF InOrder, NoneAtAll
<1>1. PICK lo \in 1 .. NumFrames + 1 : Consecutive(lo)
  BY DEF OrderInv, SessionInv
<1>2. lo \in Nat \ {0}
  BY Sizes
<1>3. Pipeline \in Seq(Frames) /\ Rising(Pipeline)
  BY <1>1, <1>2, PipelineRises
<1> DEFINE p == Pipeline
<1>4. p \in Seq(Frames) /\ Rising(p) /\ i \in 1 .. Len(p) - 1
  BY <1>3
<1> HIDE DEF p
<1>5. Len(p) \in Nat
  BY <1>4, LenProperties
<1>6. i \in 1 .. Len(p) /\ i + 1 \in 1 .. Len(p) /\ i < i + 1
  BY <1>4, <1>5
<1>7. p[i] < p[i + 1]
  BY <1>4, <1>6 DEF Rising
<1> QED
  BY <1>7 DEF p

\* Without a stop the TX task's check is not overtaken.
LEMMA NoneWithoutStop ==
  ASSUME "stop" \notin Faults, TypeOK, FreshInv, NoStray
  PROVE  strays = {}
  BY DEF TypeOK, FreshInv, NoStray, Strays

LEMMA AccountingFollows == "stop" \notin Faults /\ TypeOK /\ OrderInv => Accounting
<1> SUFFICES ASSUME "stop" \notin Faults, TypeOK, OrderInv, NoStray, state # "STOP"
             PROVE  cnt = Len(relq) + Cardinality(Occupied) + Len(Flatten(early)) + Len(cur)
                          + Len(txq) + Cardinality(lost)
  BY Zenon DEF Accounting
<1>1. PICK lo \in 1 .. NumFrames + 1 : Consecutive(lo) /\ Settled(lo)
  BY NoneWithoutStop DEF OrderInv, SessionInv
<1>2. lo \in Nat \ {0}
  BY Sizes
<1>3. cnt = Len(relq) + num + Len(Queued) /\ lost = {}
  BY <1>1, Zenon DEF Settled
<1>4. num = Cardinality(Occupied) /\ num \in Int
  <2>1. WindowFrom(lo)
    BY <1>1, Zenon DEF Consecutive
  <2> QED
    BY <1>2, <2>1, ShapeFollows DEF TypeOK
<1>5. Cardinality(lost) = 0
  BY <1>3, FS_EmptySet
<1>6. /\ relq \in Seq(Frames) /\ cur \in Seq(Frames) /\ txq \in Seq(Frames)
      /\ Flatten(early) \in Seq(Frames)
  BY QueuedTypes
<1>7. cur \o txq \in Seq(Frames) /\ Len(cur \o txq) = Len(cur) + Len(txq)
  BY <1>6, ConcatProperties
<1>8. Len(Flatten(early) \o (cur \o txq)) = Len(Flatten(early)) + Len(cur \o txq)
  BY <1>6, <1>7, ConcatProperties
<1>9. Len(Queued) = Len(Flatten(early)) + (Len(cur) + Len(txq))
  BY <1>7, <1>8 DEF Queued
<1>10. Len(relq) \in Nat /\ Len(cur) \in Nat /\ Len(txq) \in Nat /\ Len(Flatten(early)) \in Nat
  BY <1>6, LenProperties
<1> DEFINE r == Len(relq)
           e == Len(Flatten(early))
           c == Len(cur)
           t == Len(txq)
<1>11. /\ r \in Int /\ e \in Int /\ c \in Int /\ t \in Int /\ num \in Int
       /\ cnt = r + num + (e + (c + t))
  BY <1>3, <1>4, <1>9, <1>10
<1> HIDE DEF r, e, c, t
<1>12. cnt = r + num + e + c + t + 0
  BY <1>11
<1> QED
  BY <1>4, <1>5, <1>12, Zenon DEF r, e, c, t

LEMMA MembersOfJoined ==
  ASSUME NEW a \in Seq(Frames), NEW b \in Seq(Frames)
  PROVE  Seq2Set(a) \subseteq Seq2Set(a \o b) /\ Seq2Set(b) \subseteq Seq2Set(a \o b)
<1>1. /\ Len(a) \in Nat /\ Len(b) \in Nat /\ Len(a \o b) = Len(a) + Len(b)
      /\ \A i \in 1 .. Len(a) : (a \o b)[i] = a[i]
      /\ \A i \in 1 .. Len(b) : (a \o b)[Len(a) + i] = b[i]
  BY LenProperties, ConcatProperties
<1>2. ASSUME NEW i \in 1 .. Len(b) PROVE b[i] \in Seq2Set(a \o b)
  <2>1. Len(a) + i \in 1 .. Len(a) + Len(b)
    BY <1>1
  <2> QED
    BY <1>1, <2>1 DEF Seq2Set
<1>3. ASSUME NEW i \in 1 .. Len(a) PROVE a[i] \in Seq2Set(a \o b)
  <2>1. i \in 1 .. Len(a) + Len(b)
    BY <1>1
  <2> QED
    BY <1>1, <2>1 DEF Seq2Set
<1> QED
  BY <1>2, <1>3 DEF Seq2Set

LEMMA JoinedMembers ==
  ASSUME NEW a \in Seq(Frames), NEW b \in Seq(Frames)
  PROVE  Seq2Set(a \o b) \subseteq Seq2Set(a) \cup Seq2Set(b)
<1>1. /\ Len(a) \in Nat /\ Len(b) \in Nat /\ Len(a \o b) = Len(a) + Len(b)
      /\ \A i \in 1 .. Len(a) + Len(b) : (a \o b)[i] = IF i <= Len(a) THEN a[i] ELSE b[i - Len(a)]
  BY LenProperties, ConcatProperties
<1>2. ASSUME NEW i \in 1 .. Len(a) + Len(b) PROVE (a \o b)[i] \in Seq2Set(a) \cup Seq2Set(b)
  <2>1. CASE i <= Len(a)
    <3>1. i \in 1 .. Len(a)
      BY <1>1, <2>1
    <3> QED
      BY <1>1, <2>1, <3>1 DEF Seq2Set
  <2>2. CASE ~ (i <= Len(a))
    <3>1. i - Len(a) \in 1 .. Len(b)
      BY <1>1, <2>2
    <3> QED
      BY <1>1, <2>2, <3>1 DEF Seq2Set
  <2> QED
    BY <2>1, <2>2
<1> QED
  BY <1>1, <1>2 DEF Seq2Set

LEMMA OnceFollows == "stop" \notin Faults /\ TypeOK /\ OrderInv => GivenBackOnce
<1> SUFFICES ASSUME "stop" \notin Faults, TypeOK, OrderInv, NoStray
             PROVE  GivenBackOnce
  BY Zenon DEF GivenBackOnce
<1>a. CASE state = "STOP"
  <2>1. Seq2Set(out) = {} /\ Len(out) = 0
    BY <1>a, EmptySeq DEF OrderInv, FreshInv, Seq2Set
  <2> QED
    BY <2>1 DEF GivenBackOnce
<1> SUFFICES ASSUME state # "STOP" PROVE GivenBackOnce
  BY <1>a
<1>1. PICK lo \in 1 .. NumFrames + 1 : Consecutive(lo) /\ Settled(lo)
  BY NoneWithoutStop DEF OrderInv, SessionInv
<1>2. lo \in Nat \ {0} /\ lo \in Int
  BY Sizes
<1>3. WindowFrom(lo) /\ QueuedFrom(lo + num) /\ lo + num \in Int
  BY <1>1, <1>2 DEF Consecutive, WindowFrom
<1>4. lost = {} /\ Rising(out \o relq) /\ Below(out \o relq, lo)
  BY <1>1, Zenon DEF Settled
<1>5. relq \in Seq(Frames) /\ out \in Seq(Frames) /\ Queued \in Seq(Frames)
  BY QueuedTypes
<1> DEFINE w == WindowSeq
           q == Queued
<1>6. w \in Seq(Frames) /\ q \in Seq(Frames) /\ Pipeline \in Seq(Frames)
      /\ Pipeline = (relq \o w) \o q /\ Counts(w, lo) /\ Len(w) = num
  BY <1>1, <1>2, <1>5, PipelineRises
<1>7. Counts(q, lo + num)
  BY <1>3 DEF QueuedFrom
<1> HIDE DEF w, q
<1>8. out \o relq \in Seq(Frames) /\ (out \o relq) \o w \in Seq(Frames) /\ relq \o w \in Seq(Frames)
  BY <1>5, <1>6, ConcatProperties
<1>9. Rising((out \o relq) \o w) /\ Below((out \o relq) \o w, lo + num)
  <2>1. Rising((out \o relq) \o w) /\ Below((out \o relq) \o w, lo + Len(w))
    BY <1>2, <1>4, <1>6, <1>8, RisingJoined, Zenon
  <2> QED
    BY <1>6, <2>1
<1>10. Rising(((out \o relq) \o w) \o q)
  BY <1>3, <1>6, <1>7, <1>8, <1>9, RisingJoined, Zenon
<1>11. ((out \o relq) \o w) \o q = out \o Pipeline
  <2>0. /\ out \in Seq(Frames) /\ relq \in Seq(Frames) /\ w \in Seq(Frames)
        /\ q \in Seq(Frames) /\ relq \o w \in Seq(Frames)
    BY <1>5, <1>6, <1>8
  <2>1. (out \o relq) \o w = out \o (relq \o w)
    <3>1. out \in Seq(Frames) /\ relq \in Seq(Frames) /\ w \in Seq(Frames)
      BY <2>0, Zenon
    <3> QED
      BY ZenonT(30), <3>1, ConcatThree
  <2>2. (out \o (relq \o w)) \o q = out \o ((relq \o w) \o q)
    <3>1. out \in Seq(Frames) /\ relq \o w \in Seq(Frames) /\ q \in Seq(Frames)
      BY <2>0, Zenon
    <3> QED
      BY ZenonT(30), <3>1, ConcatThree
  <2> QED
    BY <1>6, <2>1, <2>2, Zenon
<1>12. /\ \A i, j \in 1 .. Len(out) : i # j => out[i] # out[j]
       /\ Seq2Set(out) \cap Seq2Set(Pipeline) = {}
  <2>1. Rising(out \o Pipeline)
    BY <1>10, <1>11, Zenon
  <2> QED
    BY <1>5, <1>6, <2>1, RisingApart, Zenon
<1>13. ASSUME NEW i \in 1 .. Len(out), NEW j \in 1 .. Len(retryq) PROVE out[i] # retryq[j]
  <2>1. retryq[j] \in Frames /\ InWindow(retryq[j])
    BY ElementOfSeq, NoneWithoutStop DEF TypeOK, OrderInv, RetryInv
  <2>2. retryq[j] \in lo .. lo + num - 1
    BY <1>2, <1>3, <2>1, WindowKeeps
  <2>3. Len(out) \in Nat /\ Len(relq) \in Nat /\ Len(out \o relq) = Len(out) + Len(relq)
        /\ (out \o relq)[i] = out[i]
    BY <1>5, LenProperties, ConcatProperties
  <2>4. i \in 1 .. Len(out \o relq)
    BY <2>3
  <2>5. out[i] < lo /\ out[i] \in Int
    <3>1. (out \o relq)[i] < lo
      BY <1>4, <2>4, Zenon DEF Below
    <3>2. out[i] \in Frames
      BY <1>5, ElementOfSeq
    <3> QED
      BY <2>3, <3>1, <3>2 DEF Frames
  <2> QED
    BY <1>2, <2>2, <2>5
<1>14. Seq2Set(out) \cap Seq2Set(retryq) = {}
  BY <1>13 DEF Seq2Set
<1>15. /\ Seq2Set(relq) \subseteq Seq2Set(Pipeline) /\ Seq2Set(w) \subseteq Seq2Set(Pipeline)
       /\ Seq2Set(q) \subseteq Seq2Set(Pipeline)
  <2>1. /\ Seq2Set(relq) \subseteq Seq2Set(relq \o w) /\ Seq2Set(w) \subseteq Seq2Set(relq \o w)
    BY <1>5, <1>6, MembersOfJoined
  <2>2. /\ Seq2Set(relq \o w) \subseteq Seq2Set(Pipeline)
        /\ Seq2Set(q) \subseteq Seq2Set(Pipeline)
    BY <1>6, <1>8, MembersOfJoined
  <2> QED
    BY <2>1, <2>2
<1>16. Seq2Set(Flatten(early)) \cup Seq2Set(cur) \cup Seq2Set(txq) \subseteq Seq2Set(q)
  <2>1. /\ cur \in Seq(Frames) /\ txq \in Seq(Frames) /\ Flatten(early) \in Seq(Frames)
        /\ cur \o txq \in Seq(Frames)
    BY QueuedTypes, ConcatProperties
  <2>2. Seq2Set(cur) \subseteq Seq2Set(cur \o txq) /\ Seq2Set(txq) \subseteq Seq2Set(cur \o txq)
    BY <2>1, MembersOfJoined
  <2>3. /\ Seq2Set(Flatten(early)) \subseteq Seq2Set(q)
        /\ Seq2Set(cur \o txq) \subseteq Seq2Set(q)
    BY <2>1, MembersOfJoined DEF q, Queued
  <2> QED
    BY <2>2, <2>3
<1>17. ASSUME NEW i \in Occupied PROVE win[i] \notin Seq2Set(out)
  <2>0. i \in Slots /\ win[i] # Null
    BY <1>17 DEF Occupied
  <2>1. PICK k \in 0 .. num - 1 : win[i] = lo + k
    BY <1>2, <1>3, <2>0, WindowHolds
  <2>2. k + 1 \in 1 .. Len(w) /\ w[k + 1] = lo + k
    <3>1. num \in 0 .. W /\ W \in Nat
      BY <1>3, Sizes DEF WindowFrom
    <3>2. k + 1 \in 1 .. num /\ lo + (k + 1) - 1 = lo + k
      BY <1>2, <3>1
    <3> QED
      BY <1>6, <3>2 DEF Counts
  <2>3. win[i] \in Seq2Set(w)
    BY <2>1, <2>2 DEF Seq2Set
  <2> QED
    BY <1>12, <1>15, <2>3
<1> QED
  BY <1>4, <1>12, <1>14, <1>15, <1>16, <1>17 DEF GivenBackOnce

-----------------------------------------------------------------------------
(* The five properties of the window.                                      *)

\* While the session is not stopped, the window of ssv6xxx_release_frames,
\* _sync_ampdu_pkt_arr and the retry path has no gap, and ssv_baw_head is
\* illegal only when the window is empty, whatever the order of the tasks and
\* of the sessions before, unless an accepted frame is refused, an allocation
\* fails or the chip reports that no BlockAck came, and until a frame strays.
THEOREM WindowHasNoGap == ASSUME Steady PROVE Spec => []WindowShape
<1>1. OrderInv => WindowShape
  <2> SUFFICES ASSUME OrderInv, strays = {}, state # "STOP" PROVE WindowShape
    BY DEF WindowShape, NoneAtAll
  <2>1. PICK lo \in 1 .. NumFrames + 1 : WindowFrom(lo)
    BY DEF OrderInv, SessionInv, Consecutive
  <2>2. lo \in Nat \ {0}
    BY Sizes
  <2> QED
    BY <2>1, <2>2, ShapeFollows, Zenon DEF WindowShape
<1> QED
  BY <1>1, OrderKept, PTL

\* _collect_retry_frames leaves one frame to retry at most, and that frame is
\* in the window, under the same conditions.
THEOREM OneFrameIsRetried == ASSUME Steady PROVE Spec => []OneRetry
<1>1. OrderInv => OneRetry
  BY DEF OrderInv, RetryInv, OneRetry, NoneAtAll, Seq2Set
<1> QED
  BY <1>1, OrderKept, PTL

\* From ssv6200_ampdu_tx_handler to the release queue no MPDU overtakes
\* another, under the same conditions.
THEOREM OrderIsKept == ASSUME Steady PROVE Spec => []InOrder
  BY InOrderFollows, OrderKept, TypeCorrect, PTL

\* ampdu_tx_frame is the number of frames the driver has, under the same
\* conditions and if mac80211 does not stop the session.
THEOREM FramesAreCounted ==
  ASSUME Steady, "stop" \notin Faults PROVE Spec => []Accounting
<1>1. TypeOK /\ OrderInv => Accounting
  BY AccountingFollows
<1> QED
  BY <1>1, OrderKept, TypeCorrect, PTL

\* _flush_release_queue hands no frame back twice, nor one that the driver
\* still has in a queue or in the window, under the same conditions and if
\* mac80211 does not stop the session.
THEOREM NothingGivenBackTwice ==
  ASSUME Steady, "stop" \notin Faults PROVE Spec => []GivenBackOnce
<1>1. TypeOK /\ OrderInv => GivenBackOnce
  BY OnceFollows
<1> QED
  BY <1>1, OrderKept, TypeCorrect, PTL
-----------------------------------------------------------------------------
(* Acknowledged frames.  A status is overwritten when an aggregate enters  *)
(* the window, when HCI hands an A-MPDU to the chip, when a verdict comes  *)
(* and when _acquire_new_ampdu_ssn_slot gives an A-MPDU up.  The invariant *)
(* says which frames the first two can meet: an MPDU in an A-MPDU that has *)
(* not reached the chip is in one such A-MPDU alone, has no answer yet and *)
(* does not wait in the retry queue.  It holds across the end of a session *)
(* and the start of the next one, whatever has strayed between them.       *)

\* The A-MPDUs on their way to the chip: no answer can be there yet.  No frame
\* is in two of them, as long as HCI keeps none that it has sent.
InHci(f) == \E i \in 1 .. Len(hciq) : f \in Seq2Set(hciq[i].fr)
InCarry(t, f) == f \in Seq2Set(carry[t])
Sending(f) == InHci(f) \/ \E t \in Ctx : InCarry(t, f)
Coming(f) == f \in Seq2Set(Queued) \/ f >= next

ComingIsPlain == \A f \in Frames : Coming(f) => st[f] = "NON_AMPDU" /\ ~Sending(f)
WindowIsMarked == \A i \in Slots : win[i] # Null => st[win[i]] # "NON_AMPDU"
RetryWaits == \A f \in Seq2Set(retryq) : st[f] \in {"RETRY_Q", "DROPPED"} /\ ~Sending(f)
HandWaits == \A f \in Frames : f = hand => st[f] \in {"RETRY", "DROPPED"} /\ ~Sending(f)
SendingWaits ==
  \A f \in Frames : Sending(f) => st[f] \in {"NON_AMPDU", "AGGREGATED", "DROPPED"}
HciOnce == \A i, j \in 1 .. Len(hciq) : i # j =>
             \A f \in Seq2Set(hciq[i].fr) : f \notin Seq2Set(hciq[j].fr)
CarryOnce == \A t \in Ctx : \A f \in Seq2Set(carry[t]) :
               ~InHci(f) /\ \A u \in Ctx : u # t => ~InCarry(u, f)
\* The frames behind the window stay in their order, whatever a stop takes out.
QueuedRises == Rising(Queued) /\ Below(Queued, next)
AckInv ==
  /\ ComingIsPlain /\ WindowIsMarked /\ RetryWaits /\ HandWaits /\ SendingWaits
  /\ HciOnce /\ CarryOnce /\ QueuedRises

\* What a step does to an acknowledged frame.
DoneStays == \A f \in Frames : st[f] = "DONE" => st'[f] \in {"DONE", "DROPPED"}

\* No A-MPDU takes a number that ampdu_ssn still has.
NumberIsFree == run' # run => \A i \in Index : slots[i].run # run'

\* A verdict on frames that were sent, or on frames of the window.
Judged(f) ==
  \/ st'[f] = st[f]
  \/ st[f] = "SENT" /\ st'[f] \in {"DONE", "DROPPED", "RETRY"}
  \/ (\E i \in Slots : win[i] = f) /\ st'[f] = "DROPPED"

LEMMA AckTypes ==
  ASSUME TypeOK
  PROVE  /\ \A i \in Slots : win[i] # Null => win[i] \in Frames
         /\ \A f \in Seq2Set(retryq) : f \in Frames
         /\ hand # Null => hand \in Frames
         /\ \A f \in Frames : f # Null
         /\ \A t \in Ctx : carry[t] \in Seq(Frames)
         /\ "tx" \in Ctx /\ "rx" \in Ctx /\ "rc" \in Ctx
         /\ st \in [Frames -> Status]
<1>1. \A i \in Slots : win[i] # Null => win[i] \in Frames
  BY DEF TypeOK
<1>2. \A f \in Seq2Set(retryq) : f \in Frames
  BY ElementOfSeq DEF TypeOK, Seq2Set
<1>3. \A f \in Frames : f # Null
  BY DEF Frames, Null
<1>4. /\ \A t \in Ctx : carry[t] \in Seq(Frames)
      /\ st \in [Frames -> Status] /\ (hand # Null => hand \in Frames)
  BY DEF TypeOK
<1> QED
  BY <1>1, <1>2, <1>3, <1>4 DEF Ctx

LEMMA AckJudged ==
  ASSUME TypeOK, AckInv, UNCHANGED <<hciq, carry>>, retryq' \in {retryq, <<>>},
         \A f \in Frames : f = hand' /\ f # hand => st'[f] = "RETRY" /\ ~Sending(f),
         \A i \in Slots : win'[i] \in {win[i], Null},
         \A f \in Frames : Coming(f)' => Coming(f),
         \A f \in Frames : Judged(f),
         QueuedRises'
  PROVE  AckInv' /\ DoneStays
<1>0. \A f : (InHci(f)' <=> InHci(f)) /\ \A t \in Ctx : (InCarry(t, f)' <=> InCarry(t, f))
  BY DEF InHci, InCarry
<1>1. \A f : Sending(f)' <=> Sending(f)
  BY <1>0, Zenon DEF Sending
<1>2. \A i \in Slots : win[i] # Null => win[i] \in Frames /\ st[win[i]] # "NON_AMPDU"
  BY AckTypes DEF AckInv, WindowIsMarked
<1>3. \A f \in Frames : f # Null
  BY AckTypes
<1>4. ASSUME NEW f \in Frames, st[f] = "NON_AMPDU" PROVE st'[f] = "NON_AMPDU"
  BY <1>2, <1>3, <1>4 DEF Judged
<1>5. ASSUME NEW f \in Frames, st[f] # "NON_AMPDU" PROVE st'[f] # "NON_AMPDU"
  BY <1>5 DEF Judged
<1>6. ComingIsPlain'
  <2> SUFFICES ASSUME NEW f \in Frames, Coming(f)' PROVE st'[f] = "NON_AMPDU" /\ ~Sending(f)'
    BY DEF ComingIsPlain
  <2>1. st[f] = "NON_AMPDU" /\ ~Sending(f)
    BY DEF AckInv, ComingIsPlain
  <2> QED
    BY <1>1, <1>4, <2>1
<1>7. WindowIsMarked'
  <2> SUFFICES ASSUME NEW i \in Slots, win'[i] # Null PROVE st'[win'[i]] # "NON_AMPDU"
    BY DEF WindowIsMarked
  <2>1. win'[i] = win[i]
    OBVIOUS
  <2> QED
    BY <1>2, <1>5, <2>1
<1>8. RetryWaits'
  <2> SUFFICES ASSUME NEW f, f \in Seq2Set(retryq')
               PROVE  st'[f] \in {"RETRY_Q", "DROPPED"} /\ ~Sending(f)'
    BY DEF RetryWaits
  <2>1. f \in Seq2Set(retryq)
    BY EmptySeq DEF Seq2Set
  <2>2. f \in Frames /\ st[f] \in {"RETRY_Q", "DROPPED"} /\ ~Sending(f)
    BY <2>1, AckTypes DEF AckInv, RetryWaits
  <2> QED
    BY <1>1, <2>2 DEF Judged
<1>h. HandWaits'
  <2> SUFFICES ASSUME NEW f \in Frames, f = hand'
               PROVE  st'[f] \in {"RETRY", "DROPPED"} /\ ~Sending(f)'
    BY DEF HandWaits
  <2>1. CASE f = hand
    <3>1. st[f] \in {"RETRY", "DROPPED"} /\ ~Sending(f)
      BY <2>1 DEF AckInv, HandWaits
    <3> QED
      BY <1>1, <3>1 DEF Judged
  <2>2. CASE f # hand
    BY <1>1, <2>2
  <2> QED
    BY <2>1, <2>2
<1>9. SendingWaits'
  <2> SUFFICES ASSUME NEW f \in Frames, Sending(f)'
               PROVE  st'[f] \in {"NON_AMPDU", "AGGREGATED", "DROPPED"}
    BY DEF SendingWaits
  <2>1. st[f] \in {"NON_AMPDU", "AGGREGATED", "DROPPED"}
    BY <1>1 DEF AckInv, SendingWaits
  <2> QED
    BY <2>1 DEF Judged
<1>10. HciOnce' /\ CarryOnce'
  BY <1>0 DEF AckInv, HciOnce, CarryOnce
<1>11. DoneStays
  BY DEF DoneStays, Judged
<1> QED
  BY <1>6, <1>7, <1>8, <1>9, <1>10, <1>11, <1>h, Zenon DEF AckInv

\* What _sync_ampdu_pkt_arr changes.
LEMMA RecordMarks ==
  ASSUME NEW a \in Seq(Frames), Record(a)
  PROVE  /\ \A f \in Frames : st'[f] = IF f \in Seq2Set(a) THEN "AGGREGATED" ELSE st[f]
         /\ \A i \in Slots : win'[i] = win[i] \/ win'[i] \in Seq2Set(a)
<1>1. st' = [f \in Frames |-> IF f \in Seq2Set(a) THEN "AGGREGATED" ELSE st[f]]
  BY Zenon DEF Record
<1>2. win' = [i \in Slots |->
               LET here == {k \in Indices(a) : SlotOf(a[k]) = i}
               IN  IF here = {} THEN win[i]
                   ELSE a[CHOOSE k \in here : \A j \in here : j <= k]]
  BY Zenon DEF Record
<1>3. ASSUME NEW i \in Slots PROVE win'[i] = win[i] \/ win'[i] \in Seq2Set(a)
  <2> DEFINE here == {k \in Indices(a) : SlotOf(a[k]) = i}
             m == CHOOSE k \in here : \A j \in here : j <= k
  <2>1. win'[i] = IF here = {} THEN win[i] ELSE a[m]
    BY <1>2
  <2>2. ASSUME here # {} PROVE m \in 1 .. Len(a)
    <3>1. here \in SUBSET (1 .. Len(a)) /\ Len(a) \in Nat
      BY LenProperties DEF Indices
    <3>2. \E k \in here : \A j \in here : j <= k
      BY <2>2, <3>1, GreatestIndex
    <3>3. m \in here
      BY <3>2
    <3> QED
      BY <3>1, <3>3
  <2> HIDE DEF m, here
  <2> QED
    BY <2>1, <2>2 DEF Seq2Set
<1> QED
  BY <1>1, <1>3

\* An aggregate enters the window, or passes it by.
LEMMA AckRecord ==
  ASSUME TypeOK, AckInv, NEW t \in Ctx, NEW a \in Seq(Frames),
         carry[t] = <<>>, carry' = [carry EXCEPT ![t] = a], UNCHANGED <<hciq, hand>>,
         Record(a) \/ (UNCHANGED <<win, st>> /\ \A f \in Seq2Set(a) : st[f] = "NON_AMPDU"),
         \A f \in Seq2Set(a) : ~Sending(f) /\ st[f] # "DONE" /\ f # hand,
         \A f \in Seq2Set(retryq') : f \in Seq2Set(retryq) /\ f \notin Seq2Set(a),
         \A f \in Frames : Coming(f)' => Coming(f) /\ f \notin Seq2Set(a),
         QueuedRises'
  PROVE  AckInv' /\ DoneStays
<1>0. /\ carry \in [Ctx -> Seq(Frames)] /\ carry'[t] = a
      /\ \A u \in Ctx : u # t => carry'[u] = carry[u]
  BY DEF TypeOK
<1>1. \A f : InHci(f)' <=> InHci(f)
  BY DEF InHci
<1>2. \A f : \A u \in Ctx : InCarry(u, f)' <=> (IF u = t THEN f \in Seq2Set(a) ELSE InCarry(u, f))
  BY <1>0 DEF InCarry
<1>3. \A f : ~InCarry(t, f)
  BY EmptySeq DEF InCarry, Seq2Set
<1>4. \A f : Sending(f)' <=> Sending(f) \/ f \in Seq2Set(a)
  BY <1>1, <1>2, <1>3 DEF Sending
<1>5. /\ \A f \in Frames : f \notin Seq2Set(a) => st'[f] = st[f]
      /\ \A f \in Seq2Set(a) : f \in Frames
      /\ \A f \in Seq2Set(a) : \/ st'[f] = "AGGREGATED"
                               \/ st'[f] = "NON_AMPDU" /\ st[f] = "NON_AMPDU"
      /\ \A i \in Slots : \/ win'[i] = win[i]
                          \/ win'[i] \in Seq2Set(a) /\ st'[win'[i]] = "AGGREGATED"
  <2>1. \A f \in Seq2Set(a) : f \in Frames
    BY ElementOfSeq DEF Seq2Set
  <2>2. CASE Record(a)
    BY <2>1, <2>2, RecordMarks
  <2>3. CASE UNCHANGED <<win, st>> /\ \A f \in Seq2Set(a) : st[f] = "NON_AMPDU"
    BY <2>1, <2>3
  <2> QED
    BY <2>2, <2>3
<1>6. ComingIsPlain'
  BY <1>4, <1>5 DEF AckInv, ComingIsPlain
<1>7. WindowIsMarked'
  <2> SUFFICES ASSUME NEW i \in Slots, win'[i] # Null PROVE st'[win'[i]] # "NON_AMPDU"
    BY DEF WindowIsMarked
  <2>1. CASE win'[i] \in Seq2Set(a) /\ st'[win'[i]] = "AGGREGATED"
    BY <2>1
  <2>2. CASE win'[i] = win[i]
    <3>1. win[i] \in Frames /\ st[win[i]] # "NON_AMPDU"
      BY <2>2, AckTypes DEF AckInv, WindowIsMarked
    <3> QED
      BY <1>5, <2>2, <3>1
  <2> QED
    BY <1>5, <2>1, <2>2
<1>8. RetryWaits'
  BY <1>4, <1>5, AckTypes DEF AckInv, RetryWaits
<1>h. HandWaits'
  BY <1>4, <1>5 DEF AckInv, HandWaits
<1>9. SendingWaits'
  BY <1>4, <1>5 DEF AckInv, SendingWaits
<1>10. HciOnce'
  BY DEF AckInv, HciOnce
<1>11. CarryOnce'
  <2> SUFFICES ASSUME NEW u \in Ctx, NEW f, f \in Seq2Set(carry'[u])
               PROVE  ~InHci(f)' /\ \A v \in Ctx : v # u => ~InCarry(v, f)'
    BY DEF CarryOnce
  <2>1. CASE u = t
    <3>1. f \in Seq2Set(a)
      BY <1>0, <2>1
    <3>2. ~InHci(f) /\ \A v \in Ctx : ~InCarry(v, f)
      BY <3>1, Zenon DEF Sending
    <3> QED
      BY <1>1, <1>2, <2>1, <3>2
  <2>2. CASE u # t
    <3>1. InCarry(u, f)
      BY <1>0, <2>2 DEF InCarry
    <3>2. ~InHci(f) /\ \A v \in Ctx : v # u => ~InCarry(v, f)
      BY <3>1, Zenon DEF AckInv, CarryOnce, InCarry
    <3>3. f \notin Seq2Set(a)
      BY <3>1, Zenon DEF Sending
    <3> QED
      BY <1>1, <1>2, <3>2, <3>3
  <2> QED
    BY <2>1, <2>2
<1>12. DoneStays
  BY <1>5 DEF DoneStays
<1> QED
  BY <1>6, <1>7, <1>8, <1>9, <1>10, <1>11, <1>12, <1>h, Zenon DEF AckInv

\* An A-MPDU is queued to HCI under a number of its own.
LEMMA AckQueued ==
  ASSUME TypeOK, AckInv, MaxRun > 1, NumberIsFree, NEW t \in Ctx, Acquire(carry[t]),
         carry' = [carry EXCEPT ![t] = <<>>],
         hciq' \in {Append(hciq, Packet(carry[t])), <<Packet(carry[t])>> \o hciq},
         UNCHANGED <<next, txq, cur, early, win, retryq, hand>>
  PROVE  AckInv' /\ DoneStays
<1>1. st' = st
  <2>1. run' = NewRun /\ run \in 0 .. MaxRun /\ MaxRun \in Nat
    BY SizesAssumption, Zenon DEF Acquire, TypeOK
  <2>2. run' # run
    BY <2>1 DEF NewRun
  <2>3. {i \in Index : slots[i].run = NewRun} = {}
    BY <2>1, <2>2 DEF NumberIsFree
  <2> DEFINE back == UNION {Seq2Set(slots[i].fr) : i \in {i \in Index : slots[i].run = NewRun}}
  <2>4. st' = [f \in Frames |-> IF f \in back /\ InWindow(f) THEN "RETRY" ELSE st[f]]
    BY Zenon DEF Acquire
  <2>5. back = {}
    BY <2>3
  <2> HIDE DEF back
  <2>6. st' = [f \in Frames |-> st[f]]
    BY <2>4, <2>5
  <2> QED
    BY <2>6, AckTypes
<1>2. /\ carry \in [Ctx -> Seq(Frames)] /\ carry'[t] = <<>>
      /\ \A u \in Ctx : u # t => carry'[u] = carry[u]
  BY DEF TypeOK
<1> DEFINE p == Packet(carry[t])
<1>3. p.fr = carry[t] /\ p \in Records /\ hciq \in Seq(Records) /\ Len(hciq) \in Nat
  <2>1. NewRun \in 0 .. MaxRun
    BY SizesAssumption DEF TypeOK, NewRun
  <2>2. carry[t] \in Seq(Frames)
    BY <1>2
  <2> QED
    BY <2>1, <2>2, LenProperties DEF Packet, Records, TypeOK
<1> HIDE DEF p
\* The places of the queue, the new one among them.
<1> DEFINE At(n) ==
             /\ Len(hciq') = Len(hciq) + 1 /\ hciq'[n] = p
             /\ \A i \in 1 .. Len(hciq') : i # n =>
                  \E k \in 1 .. Len(hciq) :
                    hciq'[i] = hciq[k] /\ k = IF i < n THEN i ELSE i - 1
             /\ \A k \in 1 .. Len(hciq) : \E i \in 1 .. Len(hciq') : hciq'[i] = hciq[k]
<1>4. \E n \in 1 .. Len(hciq) + 1 : At(n)
  <2>1. CASE hciq' = Append(hciq, p)
    <3>1. Len(hciq') = Len(hciq) + 1 /\ hciq'[Len(hciq) + 1] = p
          /\ \A i \in 1 .. Len(hciq) : hciq'[i] = hciq[i]
      BY <1>3, <2>1
    <3>2. ASSUME NEW i \in 1 .. Len(hciq'), i # Len(hciq) + 1
          PROVE  \E k \in 1 .. Len(hciq) :
                   hciq'[i] = hciq[k] /\ k = IF i < Len(hciq) + 1 THEN i ELSE i - 1
      <4>1. i \in 1 .. Len(hciq) /\ i < Len(hciq) + 1
        BY <1>3, <3>1, <3>2
      <4> QED
        BY <3>1, <4>1
    <3>3. \A k \in 1 .. Len(hciq) : k \in 1 .. Len(hciq') /\ hciq'[k] = hciq[k]
      BY <1>3, <3>1
    <3>4. At(Len(hciq) + 1)
      BY <3>1, <3>2, <3>3
    <3>5. Len(hciq) + 1 \in 1 .. Len(hciq) + 1
      BY <1>3
    <3> HIDE DEF At
    <3> QED
      BY <3>4, <3>5
  <2>2. CASE hciq' = <<p>> \o hciq
    <3>1. <<p>> \in Seq(Records) /\ Len(<<p>>) = 1 /\ <<p>>[1] = p
      BY <1>3
    <3>2. /\ Len(hciq') = 1 + Len(hciq)
          /\ \A i \in 1 .. 1 + Len(hciq) : hciq'[i] = IF i <= 1 THEN <<p>>[i] ELSE hciq[i - 1]
      BY <1>3, <2>2, <3>1, ConcatProperties
    <3>3. hciq'[1] = p
      BY <1>3, <3>1, <3>2
    <3>4. ASSUME NEW i \in 1 .. Len(hciq'), i # 1
          PROVE  \E k \in 1 .. Len(hciq) :
                   hciq'[i] = hciq[k] /\ k = IF i < 1 THEN i ELSE i - 1
      <4>1. i - 1 \in 1 .. Len(hciq) /\ ~ (i < 1) /\ ~ (i <= 1) /\ i \in 1 .. 1 + Len(hciq)
        BY <1>3, <3>2, <3>4
      <4> QED
        BY <3>2, <4>1
    <3>5. ASSUME NEW k \in 1 .. Len(hciq) PROVE \E i \in 1 .. Len(hciq') : hciq'[i] = hciq[k]
      <4>1. k + 1 \in 1 .. 1 + Len(hciq) /\ ~ (k + 1 <= 1) /\ (k + 1) - 1 = k
        BY <1>3
      <4>2. hciq'[k + 1] = hciq[k]
        BY <3>2, <4>1
      <4> QED
        BY <3>2, <4>1, <4>2
    <3>6. At(1)
      BY <1>3, <3>2, <3>3, <3>4, <3>5
    <3>7. 1 \in 1 .. Len(hciq) + 1
      BY <1>3
    <3> HIDE DEF At
    <3> QED
      BY <3>6, <3>7
  <2>3. hciq' = Append(hciq, p) \/ hciq' = <<p>> \o hciq
    BY DEF p
  <2> HIDE DEF At
  <2> QED
    BY <2>1, <2>2, <2>3
<1>5. PICK n \in 1 .. Len(hciq) + 1 : At(n)
  BY <1>4
<1>6. \A f : InHci(f)' <=> InHci(f) \/ InCarry(t, f)
  <2> SUFFICES ASSUME NEW f PROVE InHci(f)' <=> InHci(f) \/ InCarry(t, f)
    OBVIOUS
  <2>1. n \in 1 .. Len(hciq')
    BY <1>3, <1>5
  <2>2. InHci(f)' => InHci(f) \/ InCarry(t, f)
    BY <1>3, <1>5 DEF InHci, InCarry
  <2>3. InHci(f) => InHci(f)'
    BY <1>5 DEF InHci
  <2>4. InCarry(t, f) => InHci(f)'
    BY <1>3, <1>5, <2>1 DEF InHci, InCarry
  <2> QED
    BY <2>2, <2>3, <2>4
<1>7. \A f : \A u \in Ctx : InCarry(u, f)' <=> u # t /\ InCarry(u, f)
  BY <1>2, EmptySeq DEF InCarry, Seq2Set
<1>8. \A f : Sending(f)' <=> Sending(f)
  BY <1>6, <1>7, Zenon DEF Sending
<1>9. ComingIsPlain' /\ WindowIsMarked' /\ SendingWaits' /\ HandWaits' /\ QueuedRises'
  <2>1. (\A f \in Frames : Coming(f)' <=> Coming(f)) /\ Queued' = Queued
    BY DEF Coming, Queued
  <2>2. QueuedRises'
    BY <2>1 DEF AckInv, QueuedRises
  <2> QED
    BY <1>1, <1>8, <2>1, <2>2
    DEF AckInv, ComingIsPlain, WindowIsMarked, SendingWaits, HandWaits
<1>10. RetryWaits'
  BY <1>1, <1>8 DEF AckInv, RetryWaits
<1>11. HciOnce'
  <2> SUFFICES ASSUME NEW i \in 1 .. Len(hciq'), NEW j \in 1 .. Len(hciq'), i # j,
                      NEW f, f \in Seq2Set(hciq'[i].fr), f \in Seq2Set(hciq'[j].fr)
               PROVE  FALSE
    BY DEF HciOnce
  <2>1. InCarry(t, f) => ~InHci(f)
    BY DEF AckInv, CarryOnce, InCarry
  <2>2. CASE i = n \/ j = n
    BY <1>3, <1>5, <2>1, <2>2 DEF InHci, InCarry
  <2>3. CASE i # n /\ j # n
    <3>1. PICK k \in 1 .. Len(hciq) : hciq'[i] = hciq[k] /\ k = IF i < n THEN i ELSE i - 1
      BY <1>5, <2>3
    <3>2. PICK m \in 1 .. Len(hciq) : hciq'[j] = hciq[m] /\ m = IF j < n THEN j ELSE j - 1
      BY <1>5, <2>3
    <3>3. k # m
      BY <1>3, <1>5, <2>3, <3>1, <3>2
    <3> QED
      BY <3>1, <3>2, <3>3 DEF AckInv, HciOnce
  <2> QED
    BY <2>2, <2>3
<1>12. CarryOnce'
  <2> SUFFICES ASSUME NEW u \in Ctx, NEW f, f \in Seq2Set(carry'[u])
               PROVE  ~InHci(f)' /\ \A v \in Ctx : v # u => ~InCarry(v, f)'
    BY DEF CarryOnce
  <2>1. u # t /\ InCarry(u, f)
    BY <1>7 DEF InCarry
  <2>2. ~InHci(f) /\ \A v \in Ctx : v # u => ~InCarry(v, f)
    BY <2>1, Zenon DEF AckInv, CarryOnce, InCarry
  <2> QED
    BY <1>6, <1>7, <2>1, <2>2, Zenon
<1>13. DoneStays
  BY <1>1 DEF DoneStays
<1> QED
  BY <1>9, <1>10, <1>11, <1>12, <1>13, Zenon DEF AckInv

\* HCI hands an A-MPDU to the chip.
LEMMA AckSent ==
  ASSUME TypeOK, AckInv, HciSend
  PROVE  AckInv' /\ DoneStays
<1>1. /\ hciq # <<>> /\ MarkSent(Head(hciq).fr) /\ hciq' = Tail(hciq)
      /\ UNCHANGED <<next, txq, cur, early, win, retryq, carry, hand>>
  BY Zenon DEF HciSend, Empty, queueVars, ctxVars, walkVars
<1>2. /\ Len(hciq) \in Nat /\ Len(hciq) >= 1 /\ Head(hciq) = hciq[1]
      /\ Len(hciq') = Len(hciq) - 1 /\ \A i \in 1 .. Len(hciq') : hciq'[i] = hciq[i + 1]
  <2>1. hciq \in Seq(Records)
    BY DEF TypeOK
  <2> QED
    BY <1>1, <2>1, EmptySeq, LenProperties
<1> DEFINE a == hciq[1].fr
<1>3. \A f \in Frames : st'[f] = st[f] \/ (f \in Seq2Set(a) /\ st'[f] = "SENT")
  BY <1>1, <1>2 DEF MarkSent
<1>4. \A f \in Seq2Set(a) : InHci(f) /\ ~InHci(f)'
  <2> SUFFICES ASSUME NEW f \in Seq2Set(a) PROVE InHci(f) /\ ~InHci(f)'
    OBVIOUS
  <2>1. 1 \in 1 .. Len(hciq)
    BY <1>2
  <2>2. ASSUME NEW i \in 1 .. Len(hciq'), f \in Seq2Set(hciq'[i].fr) PROVE FALSE
    <3>1. i + 1 \in 1 .. Len(hciq) /\ i + 1 # 1 /\ hciq'[i] = hciq[i + 1]
      BY <1>2
    <3>2. f \notin Seq2Set(hciq[i + 1].fr)
      BY <2>1, <3>1 DEF AckInv, HciOnce
    <3> QED
      BY <2>2, <3>1, <3>2
  <2> QED
    BY <2>1, <2>2 DEF InHci
<1> HIDE DEF a
<1>5. \A f : InHci(f)' => InHci(f)
  <2> SUFFICES ASSUME NEW f, NEW i \in 1 .. Len(hciq'), f \in Seq2Set(hciq'[i].fr)
               PROVE  InHci(f)
    BY DEF InHci
  <2>1. i + 1 \in 1 .. Len(hciq) /\ hciq'[i] = hciq[i + 1]
    BY <1>2
  <2> QED
    BY <2>1 DEF InHci
<1>6. \A f : \A t \in Ctx : InCarry(t, f)' <=> InCarry(t, f)
  BY <1>1 DEF InCarry
<1>7. \A f : Sending(f)' => Sending(f) /\ f \notin Seq2Set(a)
  <2> SUFFICES ASSUME NEW f, Sending(f)' PROVE Sending(f) /\ f \notin Seq2Set(a)
    OBVIOUS
  <2>1. Sending(f)
    BY <1>5, <1>6, Zenon DEF Sending
  <2>2. InHci(f)' \/ \E t \in Ctx : InCarry(t, f)
    BY <1>6, Zenon DEF Sending
  <2>3. (\E t \in Ctx : InCarry(t, f)) => ~InHci(f)
    BY Zenon DEF AckInv, CarryOnce, InCarry
  <2> QED
    BY <1>4, <2>1, <2>2, <2>3
<1>8. \A f \in Seq2Set(a) : Sending(f)
  BY <1>4, Zenon DEF Sending
<1>9. ComingIsPlain'
  <2>1. \A f \in Frames : Coming(f)' <=> Coming(f)
    BY <1>1 DEF Coming, Queued
  <2> QED
    BY <1>3, <1>7, <1>8, <2>1 DEF AckInv, ComingIsPlain
<1>10. WindowIsMarked'
  <2> SUFFICES ASSUME NEW i \in Slots, win[i] # Null PROVE st'[win[i]] # "NON_AMPDU"
    BY <1>1 DEF WindowIsMarked
  <2>1. win[i] \in Frames /\ st[win[i]] # "NON_AMPDU"
    BY AckTypes DEF AckInv, WindowIsMarked
  <2> QED
    BY <1>3, <2>1
<1>11. RetryWaits'
  <2> SUFFICES ASSUME NEW f, f \in Seq2Set(retryq)
               PROVE  st'[f] \in {"RETRY_Q", "DROPPED"} /\ ~Sending(f)'
    BY <1>1 DEF RetryWaits
  <2>1. f \in Frames /\ st[f] \in {"RETRY_Q", "DROPPED"} /\ ~Sending(f)
    BY AckTypes DEF AckInv, RetryWaits
  <2> QED
    BY <1>3, <1>7, <1>8, <2>1
<1>h. HandWaits'
  <2> SUFFICES ASSUME NEW f \in Frames, f = hand
               PROVE  st'[f] \in {"RETRY", "DROPPED"} /\ ~Sending(f)'
    BY <1>1 DEF HandWaits
  <2>1. st[f] \in {"RETRY", "DROPPED"} /\ ~Sending(f)
    BY DEF AckInv, HandWaits
  <2> QED
    BY <1>3, <1>7, <1>8, <2>1
<1>12. SendingWaits'
  BY <1>3, <1>7 DEF AckInv, SendingWaits
<1>13. HciOnce'
  <2> SUFFICES ASSUME NEW i \in 1 .. Len(hciq'), NEW j \in 1 .. Len(hciq'), i # j,
                      NEW f, f \in Seq2Set(hciq'[i].fr)
               PROVE  f \notin Seq2Set(hciq'[j].fr)
    BY DEF HciOnce
  <2>1. /\ i + 1 \in 1 .. Len(hciq) /\ hciq'[i] = hciq[i + 1]
        /\ j + 1 \in 1 .. Len(hciq) /\ hciq'[j] = hciq[j + 1] /\ i + 1 # j + 1
    BY <1>2
  <2> QED
    BY <2>1 DEF AckInv, HciOnce
<1>14. CarryOnce'
  <2> SUFFICES ASSUME NEW u \in Ctx, NEW f, f \in Seq2Set(carry[u])
               PROVE  ~InHci(f)' /\ \A v \in Ctx : v # u => ~InCarry(v, f)'
    BY <1>1 DEF CarryOnce
  <2>1. ~InHci(f) /\ \A v \in Ctx : v # u => ~InCarry(v, f)
    BY Zenon DEF AckInv, CarryOnce
  <2> QED
    BY <1>5, <1>6, <2>1, Zenon
<1>15. QueuedRises'
  BY <1>1 DEF AckInv, QueuedRises, Queued
<1>16. DoneStays
  BY <1>3, <1>8 DEF DoneStays, AckInv, SendingWaits
<1> QED
  BY <1>9, <1>10, <1>11, <1>12, <1>13, <1>14, <1>15, <1>16, <1>h, Zenon DEF AckInv

\* _collect_retry_frames looks at a slot: a frame it takes in hand was sent
\* and has no answer.
LEMMA AckLook ==
  ASSUME TypeOK, AckInv, CollectLook
  PROVE  AckInv' /\ DoneStays
<1> DEFINE f == win[WalkSsn % W]
<1>1. hand = Null /\ UNCHANGED <<next, txq, cur, early, win, retryq, hciq, carry>>
  BY Zenon DEF CollectLook, queueVars, chipVars, chip
<1>2. \/ UNCHANGED <<st, hand>>
      \/ /\ f # Null
         /\ \E s : /\ s = "DROPPED" \/ s = st[f] \/ (st[f] = "SENT" /\ s = "RETRY")
                   /\ st' = [st EXCEPT ![f] = s]
                   /\ hand' = IF s = "RETRY" THEN f ELSE Null
  BY DEF CollectLook, WaitsForAnswer, Retried
<1>3. WalkSsn % W \in Slots
  <2>1. W \in Nat \ {0} /\ MaxSsn \in Nat \ {0} /\ base + walk \in Int
    BY Sizes DEF TypeOK, IllegalSn
  <2>2. WalkSsn \in Int
    BY <2>1, DivMod DEF WalkSsn
  <2> QED
    BY <2>1, <2>2, DivMod DEF Slots
<1>4. f # Null => f \in Frames
  BY <1>3 DEF TypeOK
<1>5. \E i \in Slots : win[i] = f
  BY <1>3
<1> HIDE DEF f
<1>6. (\A g \in Frames : Coming(g)' => Coming(g)) /\ QueuedRises'
  BY <1>1 DEF Coming, Queued, QueuedRises, AckInv
<1>7. CASE UNCHANGED <<st, hand>>
  BY <1>1, <1>6, <1>7, AckJudged DEF Judged
<1>8. CASE /\ f # Null
           /\ \E s : /\ s = "DROPPED" \/ s = st[f] \/ (st[f] = "SENT" /\ s = "RETRY")
                     /\ st' = [st EXCEPT ![f] = s]
                     /\ hand' = IF s = "RETRY" THEN f ELSE Null
  <2>1. PICK s : /\ s = "DROPPED" \/ s = st[f] \/ (st[f] = "SENT" /\ s = "RETRY")
                 /\ st' = [st EXCEPT ![f] = s]
                 /\ hand' = IF s = "RETRY" THEN f ELSE Null
    BY <1>8
  <2>2. f \in Frames /\ st \in [Frames -> Status]
    BY <1>4, <1>8, AckTypes
  <2>3. \A g \in Frames : Judged(g)
    BY <1>5, <2>1, <2>2 DEF Judged
  <2>4. ASSUME NEW g \in Frames, g = hand', g # hand PROVE st'[g] = "RETRY" /\ ~Sending(g)
    <3>1. g = f /\ s = "RETRY"
      BY <2>1, <2>4, AckTypes
    <3>2. st'[f] = "RETRY" /\ st[f] \in {"RETRY", "SENT"}
      BY <2>1, <2>2, <3>1
    <3> QED
      BY <2>2, <3>1, <3>2 DEF AckInv, SendingWaits
  <2> QED
    BY <1>1, <1>6, <2>3, <2>4, AckJudged
<1> QED
  BY <1>2, <1>7, <1>8

\* The frame in hand joins the retry queue.
LEMMA AckPut ==
  ASSUME TypeOK, AckInv, CollectPut
  PROVE  AckInv' /\ DoneStays
<1>1. /\ hand # Null /\ hand' = Null
      /\ st' = [st EXCEPT ![hand] = "RETRY_Q"] /\ retryq' = Append(retryq, hand)
      /\ UNCHANGED <<next, txq, cur, early, win, hciq, carry>>
  BY Zenon DEF CollectPut, queueVars, chipVars, chip
<1>2. PICK f \in Frames : f = hand
  BY <1>1, AckTypes
<1>3. /\ st[f] \in {"RETRY", "DROPPED"} /\ ~Sending(f) /\ st'[f] = "RETRY_Q"
      /\ \A g \in Frames : g # f => st'[g] = st[g]
  BY <1>1, <1>2, AckTypes DEF AckInv, HandWaits
<1>4. \A g : Sending(g)' <=> Sending(g)
  <2>1. \A g : (InHci(g)' <=> InHci(g)) /\ \A t \in Ctx : (InCarry(t, g)' <=> InCarry(t, g))
    BY <1>1 DEF InHci, InCarry
  <2> QED
    BY <2>1, Zenon DEF Sending
<1>5. ComingIsPlain' /\ QueuedRises'
  <2>1. (\A g \in Frames : Coming(g)' <=> Coming(g)) /\ Queued' = Queued /\ next' = next
    BY <1>1 DEF Coming, Queued
  <2>2. \A g \in Frames : Coming(g) => g # f
    BY <1>3 DEF AckInv, ComingIsPlain
  <2>3. ComingIsPlain'
    BY <1>3, <1>4, <2>1, <2>2 DEF AckInv, ComingIsPlain
  <2> QED
    BY <2>1, <2>3 DEF AckInv, QueuedRises
<1>6. WindowIsMarked'
  <2> SUFFICES ASSUME NEW i \in Slots, win[i] # Null PROVE st'[win[i]] # "NON_AMPDU"
    BY <1>1 DEF WindowIsMarked
  <2>1. win[i] \in Frames /\ st[win[i]] # "NON_AMPDU"
    BY AckTypes DEF AckInv, WindowIsMarked
  <2> QED
    BY <1>3, <2>1
<1>7. RetryWaits'
  <2> SUFFICES ASSUME NEW g, g \in Seq2Set(retryq')
               PROVE  st'[g] \in {"RETRY_Q", "DROPPED"} /\ ~Sending(g)'
    BY DEF RetryWaits
  <2>1. g \in Seq2Set(retryq) \/ g = f
    <3>1. retryq \in Seq(Frames) /\ retryq' = Append(retryq, f)
      BY <1>1, <1>2 DEF TypeOK
    <3> QED
      BY <3>1, AppendPlaces DEF Seq2Set
  <2>2. CASE g = f
    BY <1>3, <1>4, <2>2
  <2>3. CASE g # f
    <3>1. g \in Frames /\ st[g] \in {"RETRY_Q", "DROPPED"} /\ ~Sending(g)
      BY <2>1, <2>3, AckTypes DEF AckInv, RetryWaits
    <3> QED
      BY <1>3, <1>4, <2>3, <3>1
  <2> QED
    BY <2>2, <2>3
<1>8. HandWaits'
  BY <1>1, AckTypes DEF HandWaits
<1>9. SendingWaits'
  <2> SUFFICES ASSUME NEW g \in Frames, Sending(g)
               PROVE  st'[g] \in {"NON_AMPDU", "AGGREGATED", "DROPPED"}
    BY <1>4 DEF SendingWaits
  <2>1. g # f /\ st[g] \in {"NON_AMPDU", "AGGREGATED", "DROPPED"}
    BY <1>3 DEF AckInv, SendingWaits
  <2> QED
    BY <1>3, <2>1
<1>10. HciOnce' /\ CarryOnce'
  BY <1>1 DEF AckInv, HciOnce, CarryOnce, InHci, InCarry
<1>11. DoneStays
  BY <1>3 DEF DoneStays
<1> QED
  BY <1>5, <1>6, <1>7, <1>8, <1>9, <1>10, <1>11, Zenon DEF AckInv

\* An early aggregate enters the window: its frames are none that wait in
\* the retry queue or that are already on their way.
LEMMA AckSync ==
  ASSUME TypeOK, AckInv, QueuedRises', NEW t \in Ctx, FlushSync(t)
  PROVE  AckInv' /\ DoneStays
<1> DEFINE a == Head(early)
<1>1. /\ early # <<>> /\ early' = Tail(early) /\ carry[t] = <<>>
      /\ carry' = [carry EXCEPT ![t] = a]
      /\ UNCHANGED <<win, num, st, head>> \/ Record(a)
      /\ UNCHANGED <<next, txq, cur, retryq, hciq, hand>>
  BY Zenon DEF FlushSync, Empty, chipVars, chip, walkVars
<1>2. a \in Seq(Frames) /\ Queued' \in Seq(Frames) /\ Queued = a \o Queued'
  BY <1>1, SyncQueued
<1> HIDE DEF a
<1>3. /\ \A f \in Seq2Set(a) : f \in Seq2Set(Queued) /\ f \in Frames
      /\ \A f \in Seq2Set(Queued') : f \in Seq2Set(Queued) /\ f \notin Seq2Set(a)
  <2> DEFINE q == Queued'
  <2>1. q \in Seq(Frames) /\ Queued = a \o q
    BY <1>2
  <2> HIDE DEF q
  <2>2. Rising(a \o q)
    BY <2>1 DEF AckInv, QueuedRises
  <2>3. Seq2Set(a) \cap Seq2Set(q) = {}
    BY <1>2, <2>1, <2>2, RisingApart
  <2>4. Seq2Set(a) \subseteq Seq2Set(Queued) /\ Seq2Set(q) \subseteq Seq2Set(Queued)
    BY <1>2, <2>1, MembersOfJoined
  <2>5. \A f \in Seq2Set(a) : f \in Frames
    BY <1>2, ElementOfSeq DEF Seq2Set
  <2> QED
    BY <2>3, <2>4, <2>5 DEF q
<1>4. \A f \in Seq2Set(a) : /\ st[f] = "NON_AMPDU" /\ ~Sending(f)
                             /\ f \notin Seq2Set(retryq) /\ f # hand
  <2> SUFFICES ASSUME NEW f \in Seq2Set(a)
               PROVE  st[f] = "NON_AMPDU" /\ ~Sending(f) /\ f \notin Seq2Set(retryq) /\ f # hand
    OBVIOUS
  <2>1. f \in Frames /\ st[f] = "NON_AMPDU" /\ ~Sending(f)
    BY <1>3 DEF Coming, AckInv, ComingIsPlain
  <2> QED
    BY <2>1 DEF AckInv, HandWaits, RetryWaits
<1>5. \A f \in Frames : Coming(f)' => Coming(f) /\ f \notin Seq2Set(a)
  <2> SUFFICES ASSUME NEW f \in Frames, Coming(f)' PROVE Coming(f) /\ f \notin Seq2Set(a)
    OBVIOUS
  <2>1. f \in Seq2Set(Queued') \/ f >= next
    BY <1>1 DEF Coming, Seq2Set
  <2>2. \A g \in Seq2Set(Queued) : g < next
    BY DEF AckInv, QueuedRises, Below, Seq2Set
  <2>3. next \in Int /\ f \in Int
    BY DEF TypeOK, Frames
  <2> QED
    BY <1>3, <2>1, <2>2, <2>3 DEF Coming, Frames
<1>6. \A f \in Seq2Set(a) : ~Sending(f) /\ st[f] # "DONE" /\ f # hand
  BY <1>4
<1>7. \A f \in Seq2Set(retryq') : f \in Seq2Set(retryq) /\ f \notin Seq2Set(a)
  BY <1>1, <1>4
<1>8. Record(a) \/ (UNCHANGED <<win, st>> /\ \A f \in Seq2Set(a) : st[f] = "NON_AMPDU")
  BY <1>1, <1>4
<1>9. carry[t] = <<>> /\ carry' = [carry EXCEPT ![t] = a] /\ UNCHANGED <<hciq, hand>>
  BY <1>1
<1> QED
  BY <1>2, <1>5, <1>6, <1>7, <1>8, <1>9, AckRecord

\* The frame of the retry queue goes back into the window.
LEMMA AckRetry ==
  ASSUME TypeOK, RetryInv, AckInv, QueuedRises', RetryTake
  PROVE  AckInv' /\ DoneStays
<1>1. PICK n \in 1 .. Len(retryq) :
        /\ carry' = [carry EXCEPT !["rx"] = SubSeq(retryq, 1, n)]
        /\ retryq' = SubSeq(retryq, n + 1, Len(retryq))
        /\ Record(SubSeq(retryq, 1, n))
  BY Zenon DEF RetryTake
<1>2. /\ carry["rx"] = <<>> /\ pc["rx"] \in RetryPcs
      /\ UNCHANGED <<next, txq, cur, early, hciq, hand>>
  BY Zenon DEF RetryTake, RetryEntered, Empty, queueVars, chipVars, chip, walkVars
<1>3. retryq \in Seq(Frames) /\ Len(retryq) = 1 /\ n = 1
  <2>1. retryq \in Seq(Frames) /\ Len(retryq) \in Nat /\ Len(retryq) <= 1
    BY LenProperties DEF TypeOK, RetryInv
  <2> DEFINE m == Len(retryq)
  <2>2. m \in Nat /\ m <= 1 /\ n \in 1 .. m
    BY <2>1, Zenon
  <2> HIDE DEF m
  <2>3. m = 1 /\ n = 1
    BY <2>2
  <2> QED
    BY <2>1, <2>3 DEF m
<1> DEFINE a == SubSeq(retryq, 1, n)
<1>4. a \in Seq(Frames) /\ \A f \in Seq2Set(a) : f \in Seq2Set(retryq) /\ f \in Frames
  <2>1. a \in Seq(Frames) /\ Len(a) = 1 /\ a[1] = retryq[1]
    BY <1>3
  <2>2. 1 \in 1 .. Len(retryq) /\ retryq[1] \in Frames
    BY <1>3, ElementOfSeq
  <2> QED
    BY <2>1, <2>2 DEF Seq2Set
<1> HIDE DEF a
<1>5. Seq2Set(retryq') = {}
  <2>1. n + 1 \in Int /\ Len(retryq) \in Int /\ Len(retryq) < n + 1
    BY <1>3
  <2>2. retryq' = <<>>
    BY <1>1, <2>1, SubSeqEmpty, Zenon
  <2> QED
    BY <2>2, EmptySeq DEF Seq2Set
<1>6. \A f \in Seq2Set(a) : ~Sending(f) /\ st[f] # "DONE" /\ st[f] # "NON_AMPDU"
  BY <1>4 DEF AckInv, RetryWaits
<1>7. \A f \in Frames : Coming(f)' => Coming(f) /\ f \notin Seq2Set(a)
  <2>1. \A f \in Frames : Coming(f)' <=> Coming(f)
    BY <1>2 DEF Coming, Queued
  <2> QED
    BY <1>6, <2>1 DEF AckInv, ComingIsPlain
<1>8. hand = Null
  BY <1>2 DEF RetryInv, RetryPcs, CollectPcs
<1>9. "rx" \in Ctx
  BY DEF Ctx
<1>10. carry' = [carry EXCEPT !["rx"] = a] /\ Record(a)
  BY <1>1 DEF a
<1>11. \A f \in Seq2Set(retryq') : f \in Seq2Set(retryq) /\ f \notin Seq2Set(a)
  BY <1>5
<1>12. \A f \in Seq2Set(a) : ~Sending(f) /\ st[f] # "DONE" /\ f # hand
  BY <1>4, <1>6, <1>8, AckTypes
<1> QED
  BY <1>2, <1>4, <1>7, <1>9, <1>10, <1>11, <1>12, AckRecord

LEMMA AckAtStart == Init => AckInv
<1> SUFFICES ASSUME Init PROVE AckInv
  OBVIOUS
<1>1. /\ st = [f \in Frames |-> "NON_AMPDU"] /\ win = [i \in Slots |-> Null]
      /\ retryq = <<>> /\ hciq = <<>> /\ carry = [t \in Ctx |-> <<>>]
      /\ early = <<>> /\ txq = <<>> /\ cur = <<>> /\ hand = Null
  BY DEF Init
<1>2. Len(<<>>) = 0 /\ \A f : f \notin Seq2Set(<<>>)
  BY EmptySeq DEF Seq2Set
<1>3. \A f : ~InHci(f) /\ \A t \in Ctx : ~InCarry(t, f)
  BY <1>1, <1>2 DEF InHci, InCarry
<1>4. \A f : ~Sending(f)
  BY <1>3 DEF Sending
<1>5. ComingIsPlain /\ WindowIsMarked /\ RetryWaits /\ HandWaits /\ SendingWaits
  <2>1. \A f \in Frames : f # Null
    BY DEF Frames, Null
  <2> QED
    BY <1>1, <1>2, <1>4, <2>1
    DEF ComingIsPlain, WindowIsMarked, RetryWaits, HandWaits, SendingWaits
<1>6. HciOnce /\ CarryOnce
  BY <1>1, <1>2 DEF HciOnce, CarryOnce
<1>7. QueuedRises
  <2>1. Queued = <<>>
    BY <1>1, NothingQueued
  <2> QED
    BY <1>2, <2>1 DEF QueuedRises, Rising, Below
<1> QED
  BY <1>5, <1>6, <1>7 DEF AckInv

\* Frames taken out of the middle of a rising sequence leave one.
LEMMA RisingWithout ==
  ASSUME NEW a \in Seq(Frames), NEW b \in Seq(Frames), NEW c \in Seq(Frames), NEW n,
         Rising(a \o (b \o c)), Below(a \o (b \o c), n)
  PROVE  Rising(a \o c) /\ Below(a \o c, n)
<1> DEFINE s == a \o (b \o c)
           t == a \o c
           la == Len(a)
           lb == Len(b)
           lc == Len(c)
           p(i) == IF i <= la THEN i ELSE i + lb
<1>1. la \in Nat /\ lb \in Nat /\ lc \in Nat
  BY LenProperties
<1>2. /\ Len(b \o c) = lb + lc /\ b \o c \in Seq(Frames)
      /\ \A i \in 1 .. lb + lc : (b \o c)[i] = IF i <= lb THEN b[i] ELSE c[i - lb]
  BY ConcatProperties
<1>3. /\ Len(s) = la + (lb + lc)
      /\ \A i \in 1 .. la + (lb + lc) : s[i] = IF i <= la THEN a[i] ELSE (b \o c)[i - la]
  BY <1>2, ConcatProperties
<1>4. /\ Len(t) = la + lc
      /\ \A i \in 1 .. la + lc : t[i] = IF i <= la THEN a[i] ELSE c[i - la]
  BY ConcatProperties
<1>5. Rising(s) /\ Below(s, n)
  OBVIOUS
<1> HIDE DEF s, t, la, lb, lc
<1>6. ASSUME NEW i \in 1 .. la + lc PROVE p(i) \in 1 .. la + (lb + lc) /\ t[i] = s[p(i)]
  <2>1. CASE i <= la
    <3>1. p(i) = i /\ i \in 1 .. la + (lb + lc)
      BY <1>1, <2>1
    <3> QED
      BY <1>3, <1>4, <2>1, <3>1
  <2>2. CASE ~ (i <= la)
    <3>1. /\ p(i) = i + lb /\ i + lb \in 1 .. la + (lb + lc) /\ ~ (i + lb <= la)
          /\ (i + lb) - la \in 1 .. lb + lc /\ ~ ((i + lb) - la <= lb)
          /\ ((i + lb) - la) - lb = i - la
      BY <1>1, <2>2
    <3>2. s[i + lb] = (b \o c)[(i + lb) - la]
      BY <1>3, <3>1
    <3>3. (b \o c)[(i + lb) - la] = c[i - la]
      BY <1>2, <3>1
    <3>4. t[i] = c[i - la]
      BY <1>4, <2>2
    <3> QED
      BY <3>1, <3>2, <3>3, <3>4
  <2> QED
    BY <2>1, <2>2
<1>7. ASSUME NEW i \in 1 .. la + lc, NEW j \in 1 .. la + lc, i < j PROVE t[i] < t[j]
  <2>1. p(i) < p(j)
    BY <1>1, <1>7
  <2> HIDE DEF p
  <2>2. s[p(i)] < s[p(j)]
    BY <1>3, <1>5, <1>6, <2>1 DEF Rising
  <2> QED
    BY <1>6, <2>2
<1>8. ASSUME NEW i \in 1 .. la + lc PROVE t[i] < n
  <2> HIDE DEF p
  <2>1. s[p(i)] < n
    BY <1>3, <1>5, <1>6 DEF Below
  <2> QED
    BY <1>6, <2>1
<1>9. Rising(t) /\ Below(t, n)
  BY <1>4, <1>7, <1>8 DEF Rising, Below
<1> QED
  BY <1>9 DEF t

\* The order of the frames behind the window outlives the sessions.
LEMMA RisesStep ==
  ASSUME TypeOK, QueuedRises, [Next]_vars
  PROVE  QueuedRises'
<1> USE DEF vars, session, history, queueVars, winVars, chip, chipVars, walkVars, ctxVars
<1>t. /\ early \in Seq(Seq(Frames)) /\ cur \in Seq(Frames) /\ txq \in Seq(Frames)
      /\ Flatten(early) \in Seq(Frames) /\ Queued \in Seq(Frames) /\ next \in Int
  BY QueuedTypes DEF TypeOK
<1>0. ASSUME Queued' = Queued, next' = next \/ next' = next + 1 PROVE QueuedRises'
  <2>1. \A i \in 1 .. Len(Queued) : Queued[i] \in Int
    <3>1. \A i \in 1 .. Len(Queued) : Queued[i] \in Frames
      BY <1>t, ElementOfSeq
    <3> QED
      BY <3>1 DEF Frames
  <2>2. \A i \in 1 .. Len(Queued) : Queued[i] < next'
    BY <1>t, <1>0, <2>1 DEF QueuedRises, Below
  <2> QED
    BY <1>0, <2>2 DEF QueuedRises, Rising, Below
<1>1. ASSUME UNCHANGED <<early, cur, txq>>, next' = next \/ next' = next + 1 PROVE QueuedRises'
  BY <1>0, <1>1 DEF Queued
<1>2. ASSUME NEW a \in Seq(Frames), NEW b \in Seq(Frames), NEW c \in Seq(Frames),
             Queued = a \o (b \o c), Queued' = a \o c, next' = next
      PROVE  QueuedRises'
  <2>1. Rising(a \o c) /\ Below(a \o c, next)
    BY <1>2, RisingWithout DEF QueuedRises
  <2> QED
    BY <1>2, <2>1 DEF QueuedRises
\* A stop takes a frame of ampdu_skb_tx_queue, an early aggregate, the current one.
<1>3. CASE ClearTxq
  <2>1. txq # <<>> /\ txq' = Tail(txq) /\ UNCHANGED <<early, cur, next>>
    BY <1>3, Zenon DEF ClearTxq, Empty
  <2> DEFINE h == <<Head(txq)>>
             r == Tail(txq)
             e == Flatten(early)
  <2>2. h \in Seq(Frames) /\ r \in Seq(Frames) /\ txq = h \o r
    BY <1>t, <2>1, PutBackHead
  <2>3. e \o cur \in Seq(Frames) /\ e \in Seq(Frames)
    BY <1>t, ConcatProperties
  <2>4. Queued = e \o (cur \o txq) /\ Queued' = e \o (cur \o r)
    BY <2>1 DEF Queued
  <2> HIDE DEF h, r, e
  <2>5. e \in Seq(Frames) /\ cur \in Seq(Frames) /\ txq \in Seq(Frames) /\ r \in Seq(Frames)
    BY <1>t, <2>2, <2>3
  <2>6. (e \o cur) \o txq = e \o (cur \o txq) /\ (e \o cur) \o r = e \o (cur \o r)
    BY <2>5, ConcatThree, ZenonT(30)
  <2>7. Queued = (e \o cur) \o (h \o r)
    <3>1. (e \o cur) \o txq = (e \o cur) \o (h \o r)
      BY <2>2, Zenon
    <3>2. Queued = (e \o cur) \o txq
      BY <2>4, <2>6, Zenon
    <3> QED
      BY <3>1, <3>2, Zenon
  <2>8. Queued' = (e \o cur) \o r
    BY <2>4, <2>6, Zenon
  <2> QED
    BY <1>2, <2>1, <2>2, <2>3, <2>7, <2>8
<1>4. CASE StopEnd
  <2>1. cur' = <<>> /\ UNCHANGED <<early, txq, next>>
    BY <1>4, Zenon DEF StopEnd
  <2>2. Queued = Flatten(early) \o (cur \o txq) /\ Queued' = Flatten(early) \o (<<>> \o txq)
    BY <2>1 DEF Queued
  <2>3. Queued' = Flatten(early) \o txq
    BY <1>t, <2>2, ConcatEmptySeq
  <2> QED
    BY <1>t, <1>2, <2>1, <2>2, <2>3
<1>5. ASSUME early # <<>>, early' = Tail(early), UNCHANGED <<cur, txq, next>> PROVE QueuedRises'
  <2> DEFINE b == Head(early)
             c == Queued'
  <2>1. b \in Seq(Frames) /\ c \in Seq(Frames) /\ Queued = b \o c
    BY <1>5, SyncQueued
  <2> HIDE DEF b
  <2>2. <<>> \in Seq(Frames) /\ <<>> \o (b \o c) = b \o c /\ <<>> \o c = c
    BY <2>1, ConcatEmptySeq, ConcatProperties, EmptySeq
  <2> QED
    BY <1>2, <1>5, <2>1, <2>2
<1>6. CASE ClearEarly
  <2>1. early # <<>> /\ early' = Tail(early) /\ UNCHANGED <<cur, txq, next>>
    BY <1>6, Zenon DEF ClearEarly, Empty
  <2> QED
    BY <1>5, <2>1
<1>7. ASSUME NEW t, FlushSync(t) PROVE QueuedRises'
  <2>1. early # <<>> /\ early' = Tail(early) /\ UNCHANGED <<cur, txq, next>>
    BY <1>7, Zenon DEF FlushSync, Empty
  <2> QED
    BY <1>5, <2>1
<1>8. CASE TxStart
  <2>1. early' = <<>> /\ cur' = <<>> /\ txq' = <<>>
    BY <1>8, Zenon DEF TxStart
  <2>2. Queued' = <<>> /\ Len(<<>>) = 0
    BY <2>1, FlattenEmpty, EmptySeq, ConcatEmptySeq DEF Queued
  <2> QED
    BY <2>2 DEF QueuedRises, Rising, Below
<1>9. CASE TxQueue
  <2>1. /\ next \in Frames /\ txq' = Append(txq, next) /\ next' = next + 1
        /\ UNCHANGED <<early, cur>>
    BY <1>9, Zenon DEF TxQueue
  <2> DEFINE q == Queued
             r == Queued'
  <2>2. r = Append(q, next) /\ q \in Seq(Frames) /\ Rising(q) /\ Below(q, next)
    BY <1>t, <2>1, FrameQueued DEF QueuedRises
  <2> HIDE DEF q, r
  <2>3. /\ Len(q) \in Nat /\ Len(r) = Len(q) + 1
        /\ \A j \in 1 .. Len(r) : \/ j \in 1 .. Len(q) /\ r[j] = q[j]
                                  \/ j = Len(q) + 1 /\ r[j] = next
    BY <2>1, <2>2, AppendPlaces
  <2>4. \A j \in 1 .. Len(q) : q[j] < next /\ q[j] \in Int
    <3>1. \A j \in 1 .. Len(q) : q[j] \in Frames
      BY <2>2, ElementOfSeq
    <3> QED
      BY <2>2, <3>1 DEF Below, Frames
  <2>5. ASSUME NEW j \in 1 .. Len(r) PROVE r[j] < next + 1
    <3>1. CASE j \in 1 .. Len(q) /\ r[j] = q[j]
      BY <1>t, <2>4, <3>1
    <3>2. CASE j = Len(q) + 1 /\ r[j] = next
      BY <1>t, <3>2
    <3> QED
      BY <2>3, <3>1, <3>2
  <2>6. ASSUME NEW j \in 1 .. Len(r), NEW k \in 1 .. Len(r), j < k PROVE r[j] < r[k]
    <3>1. j \in 1 .. Len(q) /\ r[j] = q[j]
      BY <2>3, <2>6
    <3>2. CASE k \in 1 .. Len(q) /\ r[k] = q[k]
      BY <2>2, <2>6, <3>1, <3>2 DEF Rising
    <3>3. CASE k = Len(q) + 1 /\ r[k] = next
      BY <2>4, <3>1, <3>3
    <3> QED
      BY <2>3, <3>2, <3>3
  <2>7. Rising(r) /\ Below(r, next + 1)
    BY <2>5, <2>6 DEF Rising, Below
  <2> QED
    BY <2>1, <2>7 DEF QueuedRises, r
\* The others keep the frames behind the window as they are.
<1>10. CASE TxOperation \/ TxStop \/ StopMark \/ StopRelease \/ ClearRetryq \/ ClearRelq
            \/ ClearNext
  BY <1>1, <1>10, Zenon DEF TxOperation, TxStop, StopMark, StopRelease, ClearRetryq, ClearRelq,
     ClearNext
<1>11. CASE TxBypass \/ TxCheck \/ TxRefused \/ AggregateNoMem \/ AggregateDone
  BY <1>1, <1>11, Zenon DEF TxBypass, TxCheck, TxRefused, AggregateNoMem, AggregateDone
<1>12. CASE Aggregate
  <2>1. next' = next
    BY <1>12, Zenon DEF Aggregate
  <2> QED
    BY <1>0, <1>12, <2>1, AggregateQueued
<1>13. ASSUME NEW t, CloseCurrent(t) PROVE QueuedRises'
  <2>1. next' = next
    BY <1>13, Zenon DEF CloseCurrent
  <2> QED
    BY <1>0, <1>13, <2>1, FlushQueued
<1>14. ASSUME NEW t, NEW p, AmpduFlush(t, p) \/ FlushSend(t) \/ FlushDone(t) \/ Release(t, p)
       PROVE  QueuedRises'
  BY <1>1, <1>14, Zenon DEF AmpduFlush, FlushSend, FlushDone, Release
<1>15. CASE Hci \/ Chip
  BY <1>1, <1>15, Zenon DEF Hci, HciSend, HciSendFails, Chip, RxBa, RxNoBaEvent, RxRateRptNoBa,
     AirLost
<1>16. CASE RxRateRpt \/ RxEnd \/ CollectLook \/ CollectPut \/ CollectDone \/ RetryTake
            \/ RetryNoMem \/ RetrySend \/ RetryDone \/ Report
  BY <1>1, <1>16, Zenon DEF RxRateRpt, RxEnd, CollectLook, CollectPut, CollectDone, RetryTake,
     RetryNoMem, RetrySend, RetryDone, Report
<1>17. CASE CheckStart \/ CheckPass \/ CheckExpired \/ CheckDone \/ NoTimeoutFlush \/ RcNoBa
  BY <1>1, <1>17, Zenon DEF CheckStart, CheckPass, CheckExpired, CheckDone, NoTimeoutFlush, RcNoBa
<1>18. CASE UNCHANGED vars
  BY <1>1, <1>18
<1>19. CASE Mac
  BY <1>3, <1>4, <1>6, <1>8, <1>10, <1>19 DEF Mac
<1>20. CASE TxTask
  BY <1>7, <1>9, <1>11, <1>12, <1>13, <1>14, <1>20, Zenon DEF TxTask
<1>21. CASE RxTask \/ RcWork
  BY <1>7, <1>13, <1>14, <1>16, <1>17, <1>21, Zenon
  DEF RxTask, RcWork, ReleaseBa, ReleaseTimeout, ReleaseNoBa
<1> QED
  BY <1>15, <1>18, <1>19, <1>20, <1>21 DEF Next

\* A step that leaves the statuses alone, and the frames behind the window or
\* moves them from one queue to the next.
LEMMA AckMoves ==
  ASSUME TypeOK, AckInv, UNCHANGED <<hciq, carry, hand, st>>, retryq' \in {retryq, <<>>},
         \A i \in Slots : win'[i] \in {win[i], Null},
         Queued' = Queued, next' >= next, next \in Int, next' \in Int, QueuedRises'
  PROVE  AckInv' /\ DoneStays
<1>1. \A f \in Frames : Coming(f)' => Coming(f)
  BY DEF Coming, Frames
<1> QED
  BY <1>1, AckJudged DEF Judged

\* What a stop takes out of the queues, one frame or aggregate at a time.
LEMMA AckCleared ==
  ASSUME TypeOK, MacStops, RetryInv, AckInv, QueuedRises', Mac, ~ TxOperation
  PROVE  AckInv' /\ DoneStays
<1> USE DEF vars, session, history, queueVars, winVars, chip, chipVars, walkVars, ctxVars
<1>1. UNCHANGED <<next, hciq, carry, hand>>
  BY Zenon DEF Mac, TxStart, TxStop, StopMark, StopRelease, ClearTxq, ClearRetryq,
     ClearRelq, ClearEarly, ClearNext, StopEnd
<1>2. retryq' \in {retryq, <<>>}
  <2>1. CASE TxStart
    BY <2>1, Zenon DEF TxStart
  <2>2. CASE ClearRetryq
    <3>1. retryq # <<>> /\ retryq' = Tail(retryq)
      BY <2>2, Zenon DEF ClearRetryq, Empty
    <3>2. retryq \in Seq(Frames) /\ Len(retryq) \in Nat /\ Len(retryq) <= 1
      BY LenProperties DEF TypeOK, RetryInv
    <3>3. retryq' \in Seq(Frames) /\ Len(retryq') = Len(retryq) - 1
      BY <3>1, <3>2, HeadTailProperties
    <3>4. Len(retryq') \in Nat
      BY <3>3, LenProperties
    <3>5. Len(retryq') = 0
      BY <3>2, <3>3, <3>4
    <3> QED
      BY <3>3, <3>5, EmptySeq
  <2>3. CASE ~ TxStart /\ ~ ClearRetryq
    <3>1. retryq' = retryq
      BY <2>3, Zenon DEF Mac, TxStop, StopMark, StopRelease, ClearTxq,
         ClearRelq, ClearEarly, ClearNext, StopEnd
    <3> QED
      BY <3>1
  <2> QED
    BY <2>1, <2>2, <2>3
<1>3. \A i \in Slots : win'[i] \in {win[i], Null}
  <2>1. CASE TxStart
    <3>1. win' = [i \in Slots |-> Null]
      BY <2>1, Zenon DEF TxStart
    <3> QED
      BY <3>1
  <2>2. CASE StopRelease
    <3>1. \E n \in 0 .. W : ReleaseFrames(n)
      BY <2>2, Zenon DEF StopRelease
    <3> QED
      BY <3>1 DEF ReleaseFrames
  <2>3. CASE ~ TxStart /\ ~ StopRelease
    <3>1. win' = win
      BY <2>3, Zenon DEF Mac, TxStop, StopMark, ClearTxq, ClearRetryq,
         ClearRelq, ClearEarly, ClearNext, StopEnd
    <3> QED
      BY <3>1
  <2> QED
    BY <2>1, <2>2, <2>3
<1>4. \A f \in Frames : Judged(f)
  <2>1. CASE StopMark
    <3>1. PICK f : /\ f = win[marked]
                   /\ st' = IF f # Null /\ GivenUp(f) THEN [st EXCEPT ![f] = "DROPPED"]
                            ELSE st
      BY <2>1 DEF StopMark
    <3>2. marked \in Slots
      <4>1. marked < W
        BY <2>1, Zenon DEF StopMark
      <4> QED
        BY <4>1, Sizes DEF TypeOK, Slots
    <3>3. \A g \in Frames : st'[g] = st[g] \/ (g = f /\ st'[g] = "DROPPED")
      BY <3>1, AckTypes
    <3> QED
      BY <3>1, <3>2, <3>3 DEF Judged
  <2>2. CASE ~ StopMark
    <3>1. st' = st
      BY <2>2, Zenon DEF Mac, TxStart, TxStop, StopRelease, ClearTxq, ClearRetryq,
         ClearRelq, ClearEarly, ClearNext, StopEnd
    <3> QED
      BY <3>1 DEF Judged
  <2> QED
    BY <2>1, <2>2
<1>5. \A f \in Frames : Coming(f)' => Coming(f)
  <2>t. /\ early \in Seq(Seq(Frames)) /\ cur \in Seq(Frames) /\ txq \in Seq(Frames)
        /\ Flatten(early) \in Seq(Frames) /\ Queued \in Seq(Frames)
        /\ cur \o txq \in Seq(Frames)
    BY QueuedTypes, ConcatProperties
  <2> SUFFICES Seq2Set(Queued') \subseteq Seq2Set(Queued)
    <3>1. ASSUME NEW f \in Frames, Coming(f)' PROVE f \in Seq2Set(Queued') \/ f >= next'
      BY <3>1 DEF Coming, Seq2Set
    <3> QED
      BY <1>1, <3>1 DEF Coming
  <2>1. CASE UNCHANGED <<early, cur, txq>>
    BY <2>1 DEF Queued
  <2>2. CASE TxStart
    <3>1. early' = <<>> /\ cur' = <<>> /\ txq' = <<>>
      BY <2>2, Zenon DEF TxStart
    <3>2. Queued' = <<>> /\ Len(<<>>) = 0
      BY <3>1, FlattenEmpty, EmptySeq, ConcatEmptySeq DEF Queued
    <3> QED
      BY <3>2 DEF Seq2Set
  <2>3. CASE ClearTxq
    <3>1. txq # <<>> /\ txq' = Tail(txq) /\ UNCHANGED <<early, cur>>
      BY <2>3, Zenon DEF ClearTxq, Empty
    <3> DEFINE h == <<Head(txq)>>
               r == Tail(txq)
               e == Flatten(early)
    <3>2. h \in Seq(Frames) /\ r \in Seq(Frames) /\ txq = h \o r /\ e \in Seq(Frames)
          /\ cur \o r \in Seq(Frames)
      BY <2>t, <3>1, PutBackHead, ConcatProperties
    <3>3. Queued = e \o (cur \o txq) /\ Queued' = e \o (cur \o r)
      BY <3>1 DEF Queued
    <3> HIDE DEF h, r, e
    <3>4. Seq2Set(Queued') \subseteq Seq2Set(e) \cup (Seq2Set(cur) \cup Seq2Set(r))
      BY <2>t, <3>2, <3>3, JoinedMembers
    <3>5. /\ Seq2Set(e) \subseteq Seq2Set(Queued) /\ Seq2Set(cur \o txq) \subseteq Seq2Set(Queued)
          /\ Seq2Set(cur) \subseteq Seq2Set(cur \o txq) /\ Seq2Set(txq) \subseteq Seq2Set(cur \o txq)
          /\ Seq2Set(r) \subseteq Seq2Set(txq)
      BY <2>t, <3>2, <3>3, MembersOfJoined
    <3> QED
      BY <3>4, <3>5
  <2>4. CASE StopEnd
    <3>1. cur' = <<>> /\ UNCHANGED <<early, txq>>
      BY <2>4, Zenon DEF StopEnd
    <3>2. Queued' = Flatten(early) \o txq /\ Queued = Flatten(early) \o (cur \o txq)
      BY <2>t, <3>1, ConcatEmptySeq DEF Queued
    <3>3. Seq2Set(Queued') \subseteq Seq2Set(Flatten(early)) \cup Seq2Set(txq)
      BY <2>t, <3>2, JoinedMembers
    <3>4. /\ Seq2Set(Flatten(early)) \subseteq Seq2Set(Queued)
          /\ Seq2Set(cur \o txq) \subseteq Seq2Set(Queued)
          /\ Seq2Set(txq) \subseteq Seq2Set(cur \o txq)
      BY <2>t, <3>2, MembersOfJoined
    <3> QED
      BY <3>3, <3>4
  <2>5. CASE ClearEarly
    <3>1. early # <<>> /\ early' = Tail(early) /\ UNCHANGED <<cur, txq>>
      BY <2>5, Zenon DEF ClearEarly, Empty
    <3> DEFINE b == Head(early)
               c == Queued'
    <3>2. b \in Seq(Frames) /\ c \in Seq(Frames) /\ Queued = b \o c
      BY <3>1, SyncQueued
    <3> HIDE DEF b, c
    <3>3. Seq2Set(c) \subseteq Seq2Set(Queued)
      BY <3>2, MembersOfJoined
    <3> QED
      BY <3>3 DEF c
  <2>6. CASE TxStop \/ StopMark \/ StopRelease \/ ClearRetryq \/ ClearRelq \/ ClearNext
    BY <2>1, <2>6, Zenon DEF TxStop, StopMark, StopRelease, ClearRetryq, ClearRelq, ClearNext
  <2> QED
    BY <2>2, <2>3, <2>4, <2>5, <2>6 DEF Mac
<1> QED
  BY <1>1, <1>2, <1>3, <1>4, <1>5, AckJudged

LEMMA AckStep ==
  ASSUME Steady, "bus" \notin Faults, MaxRun > 1, TypeOK, OrderInv, AckInv,
         [Next]_vars, [NumberIsFree]_vars
  PROVE  AckInv' /\ DoneStays
<1> USE DEF vars, session, history, queueVars, winVars, chip, chipVars, walkVars, ctxVars
<1>a. RetryInv /\ MacStops /\ next \in Int
  BY DEF OrderInv, TypeOK
<1>r. QueuedRises'
  BY RisesStep DEF AckInv
<1>b. "tx" \in Ctx /\ "rx" \in Ctx
  BY DEF Ctx
\* Steps that disturb nothing of it.
<1>0. ASSUME UNCHANGED <<next, txq, cur, early, win, st, retryq, hciq, carry, hand>>
      PROVE  AckInv' /\ DoneStays
  <2>1. Queued' = Queued /\ next' >= next /\ next' \in Int
    BY <1>a, <1>0 DEF Queued
  <2> QED
    BY <1>a, <1>r, <1>0, <2>1, AckMoves
\* Verdicts.
<1>1. ASSUME UNCHANGED <<next, txq, cur, early, win, retryq, hciq, carry, hand>>,
             \A f \in Frames : Judged(f)
      PROVE  AckInv' /\ DoneStays
  <2>1. \A f \in Frames : Coming(f)' => Coming(f)
    BY <1>1 DEF Coming, Queued
  <2> QED
    BY <1>r, <1>1, <2>1, AckJudged
\* The session starts and ends.
<1>2. CASE TxOperation
  BY <1>0, <1>2, Zenon DEF TxOperation
<1>3. CASE Mac
  BY <1>a, <1>r, <1>2, <1>3, AckCleared
\* mac80211 hands over a frame.
<1>5. CASE TxBypass
  <2>1. /\ next' = next + 1
        /\ UNCHANGED <<txq, cur, early, win, st, retryq, hciq, carry, hand>>
    BY <1>5, Zenon DEF TxBypass
  <2>2. Queued' = Queued /\ next' >= next /\ next' \in Int
    BY <1>a, <2>1 DEF Queued
  <2>3. \A i \in Slots : win'[i] \in {win[i], Null}
    BY <2>1
  <2> QED
    BY <1>a, <1>r, <2>1, <2>2, <2>3, AckMoves
<1>4. CASE TxCheck
  BY <1>0, <1>4, Zenon DEF TxCheck
<1>6. CASE TxQueue
  <2>1. /\ next \in Frames /\ txq' = Append(txq, next)
        /\ st' = [st EXCEPT ![next] = "NON_AMPDU"] /\ next' = next + 1
        /\ UNCHANGED <<cur, early, win, retryq, hciq, carry, hand>>
    BY <1>6, Zenon DEF TxQueue
  <2>2. Queued' = Append(Queued, next)
    BY <2>1, FrameQueued
  <2>3. st[next] = "NON_AMPDU"
    BY <1>a, <2>1 DEF Coming, AckInv, ComingIsPlain
  <2>4. st' = st
    BY <2>1, <2>3, AckTypes
  <2>5. \A f \in Frames : Coming(f)' => Coming(f)
    <3> SUFFICES ASSUME NEW f \in Frames, Coming(f)' PROVE Coming(f)
      OBVIOUS
    <3>1. \A g \in Seq2Set(Queued') : g \in Seq2Set(Queued) \/ g = next
      <4>1. Queued \in Seq(Frames)
        BY QueuedTypes
      <4> DEFINE q == Queued
                 r == Queued'
      <4>2. q \in Seq(Frames) /\ r = Append(q, next)
        BY <2>2, <4>1
      <4> HIDE DEF q, r
      <4>3. \A g \in Seq2Set(r) : g \in Seq2Set(q) \/ g = next
        BY <2>1, <4>2, AppendPlaces DEF Seq2Set
      <4> QED
        BY <4>3 DEF q, r
    <3>2. f \in Seq2Set(Queued') \/ f >= next'
      BY Zenon DEF Coming, Seq2Set
    <3> QED
      BY <1>a, <2>1, <3>1, <3>2 DEF Coming, Frames
  <2> QED
    BY <1>r, <2>1, <2>4, <2>5, AckJudged DEF Judged
<1>7. CASE Aggregate
  <2>1. UNCHANGED <<next, win, st, retryq, hciq, carry, hand>>
    BY <1>7, Zenon DEF Aggregate
  <2>2. Queued' = Queued
    BY <1>7, AggregateQueued
  <2>3. next' >= next /\ next' \in Int /\ \A i \in Slots : win'[i] \in {win[i], Null}
    BY <1>a, <2>1
  <2> QED
    BY <1>a, <1>r, <2>1, <2>2, <2>3, AckMoves
<1>8. ASSUME NEW t, CloseCurrent(t) PROVE AckInv' /\ DoneStays
  <2>1. UNCHANGED <<next, win, st, retryq, hciq, carry, hand>>
    BY <1>8, Zenon DEF CloseCurrent
  <2>2. Queued' = Queued
    BY <1>8, FlushQueued
  <2>3. next' >= next /\ next' \in Int /\ \A i \in Slots : win'[i] \in {win[i], Null}
    BY <1>a, <2>1
  <2> QED
    BY <1>a, <1>r, <2>1, <2>2, <2>3, AckMoves
<1>9. ASSUME NEW t \in Ctx, FlushSync(t) PROVE AckInv' /\ DoneStays
  BY <1>r, <1>9, AckSync
\* An A-MPDU goes to HCI.
<1>10. ASSUME NEW t \in Ctx, Acquire(carry[t]), carry' = [carry EXCEPT ![t] = <<>>],
              hciq' \in {Append(hciq, Packet(carry[t])), <<Packet(carry[t])>> \o hciq},
              UNCHANGED <<next, txq, cur, early, win, retryq, hand>>
       PROVE  AckInv' /\ DoneStays
  <2>1. run' = NewRun /\ run \in 0 .. MaxRun /\ MaxRun \in Nat
    BY <1>10, SizesAssumption, Zenon DEF Acquire, TypeOK
  <2>2. run' # run
    BY <2>1 DEF NewRun
  <2>3. NumberIsFree
    <3>1. ~ UNCHANGED vars
      BY <2>2
    <3> QED
      BY <3>1, Zenon
  <2> QED
    BY <1>10, <2>3, AckQueued
<1>11. ASSUME NEW t \in Ctx, FlushSend(t) PROVE AckInv' /\ DoneStays
  <2>1. /\ Acquire(carry[t]) /\ hciq' = Append(hciq, Packet(carry[t]))
        /\ carry' = [carry EXCEPT ![t] = <<>>]
        /\ UNCHANGED <<next, txq, cur, early, win, retryq, hand>>
    BY <1>11, Zenon DEF FlushSend
  <2> QED
    BY <1>10, <2>1
<1>12. CASE RetrySend
  <2>1. /\ Acquire(carry["rx"]) /\ hciq' = <<Packet(carry["rx"])>> \o hciq
        /\ carry' = [carry EXCEPT !["rx"] = <<>>]
        /\ UNCHANGED <<next, txq, cur, early, win, retryq, hand>>
    BY <1>12, Zenon DEF RetrySend
  <2> QED
    BY <1>b, <1>10, <2>1
<1>13. CASE Hci
  <2>1. ~ HciSendFails
    BY Zenon DEF HciSendFails, Fault
  <2> QED
    BY <1>13, <2>1, AckSent DEF Hci
\* What comes back.
<1>14. CASE RxBa
  <2> DEFINE found == With(Head(air).run)
             known == state # "STOP" /\ found # {}
             sent  == IF known THEN SentIn(slots[First(found)].fr) ELSE {}
  <2>1. PICK acked \in SUBSET sent :
          st' = [f \in Frames |-> IF f \in acked THEN "DONE"
                                  ELSE IF f \in sent THEN Retried(f) ELSE st[f]]
    BY <1>14 DEF RxBa
  <2>2. \A f : f \in sent => st[f] = "SENT"
    BY DEF SentIn, WaitsForAnswer
  <2> HIDE DEF sent
  <2>3. \A f \in Frames : Judged(f)
    BY <2>1, <2>2 DEF Judged, Retried
  <2>4. UNCHANGED <<next, txq, cur, early, win, retryq, hciq, carry, hand>>
    BY <1>14, Zenon DEF RxBa
  <2> QED
    BY <1>1, <2>3, <2>4
<1>15. CASE RxNoBaEvent \/ RxRateRptNoBa
  <2>1. "noba" \in Faults
    BY <1>15, Zenon DEF RxNoBaEvent, RxRateRptNoBa, Fault
  <2> QED
    BY <2>1, SteadyFaults
<1>16. CASE TxRefused \/ AggregateNoMem \/ RetryNoMem
  <2>1. "refuse" \in Faults \/ "alloc" \in Faults
    BY <1>16, Zenon DEF TxRefused, AggregateNoMem, RetryNoMem, Fault
  <2> QED
    BY <2>1, SteadyFaults
<1>17. CASE RcWork
  <2>1. pc["rc"] = "release" \/ rcq # <<>>
    BY <1>17, Zenon DEF RcWork, RcNoBa, ReleaseNoBa, Empty
  <2>2. pc["rc"] = "idle" /\ rcq = <<>>
    BY <1>a DEF RetryInv
  <2> QED
    BY <2>1, <2>2
<1>18. ASSUME NEW t, NEW to, Release(t, to) PROVE AckInv' /\ DoneStays
  <2>1. UNCHANGED <<next, txq, cur, early, st, retryq, hciq, carry, hand>>
    BY <1>18, Zenon DEF Release
  <2>2. \A i \in Slots : win'[i] \in {win[i], Null}
    <3>1. \E n \in 0 .. W : ReleaseFrames(n)
      BY <1>18, Zenon DEF Release
    <3> QED
      BY <3>1 DEF ReleaseFrames
  <2>3. Queued' = Queued /\ next' >= next /\ next' \in Int
    BY <1>a, <2>1 DEF Queued
  <2> QED
    BY <1>a, <1>r, <2>1, <2>2, <2>3, AckMoves
<1>19. CASE CheckExpired
  <2>1. PICK f, late : /\ late => st[f] = "SENT"
                       /\ st' = [st EXCEPT ![f] = IF late THEN Retried(f) ELSE st[f]]
    BY <1>19 DEF CheckExpired, WaitsForAnswer
  <2>2. \A g \in Frames : Judged(g)
    BY <2>1, AckTypes DEF Judged, Retried
  <2>3. UNCHANGED <<next, txq, cur, early, win, retryq, hciq, carry, hand>>
    BY <1>19, Zenon DEF CheckExpired
  <2> QED
    BY <1>1, <2>2, <2>3
<1>20. CASE CollectLook \/ CollectPut
  BY <1>20, AckLook, AckPut
<1>21. CASE RetryTake
  BY <1>a, <1>r, <1>21, AckRetry
\* The others.
<1>22. CASE AirLost
  BY <1>0, <1>22, Zenon DEF AirLost
<1>23. ASSUME NEW t, NEW from, FlushDone(t) \/ AmpduFlush(t, from) PROVE AckInv' /\ DoneStays
  BY <1>0, <1>23, Zenon DEF FlushDone, AmpduFlush
<1>24. CASE AggregateDone \/ RxRateRpt \/ RxEnd \/ CollectDone \/ RetryDone \/ Report
            \/ NoTimeoutFlush \/ CheckStart \/ CheckPass \/ CheckDone
  BY <1>0, <1>24, Zenon DEF AggregateDone, RxRateRpt, RxEnd, CollectDone, RetryDone, Report,
     NoTimeoutFlush, CheckStart, CheckPass, CheckDone
<1>25. CASE UNCHANGED vars
  BY <1>0, <1>25
<1>27. CASE TxTask
  BY <1>b, <1>4, <1>5, <1>6, <1>7, <1>8, <1>9, <1>11, <1>16, <1>23, <1>24, <1>27, Zenon
  DEF TxTask
<1>28. CASE Chip
  BY <1>14, <1>15, <1>22, <1>28, Zenon DEF Chip
<1>29. CASE RxTask
  BY <1>b, <1>8, <1>9, <1>11, <1>12, <1>16, <1>18, <1>19, <1>20, <1>21, <1>23, <1>24, <1>29,
     Zenon DEF RxTask, ReleaseBa, ReleaseTimeout
<1> QED
  BY <1>3, <1>13, <1>17, <1>25, <1>27, <1>28, <1>29, Zenon DEF Next

\* An acknowledged MPDU of the window stays acknowledged until it is released
\* or given up: ssv6xxx_ampdu_sent, the BlockAck, the time-out and the retry
\* path never send it again.  This needs Steady, as the order does; no failed bus
\* transfer, after which HCI sends again what ssv6xxx_ampdu_sent has marked
\* SENT; and that _acquire_new_ampdu_ssn_slot never takes a tx_pkt_run_no that
\* an A-MPDU in ampdu_ssn still has, for it makes the MPDUs of that one RETRY
\* without looking at their status.
THEOREM AckedStaysAcked ==
  ASSUME Steady, "bus" \notin Faults, MaxRun > 1
  PROVE  Spec /\ [][NumberIsFree]_vars => AckedIsFinal
<1>1. Init => AckInv
  BY AckAtStart
<1>2. TypeOK /\ OrderInv /\ AckInv /\ [Next]_vars /\ [NumberIsFree]_vars => AckInv'
  BY AckStep
<1>3. TypeOK /\ OrderInv /\ AckInv /\ [Next]_vars /\ [NumberIsFree]_vars =>
        [state = "OPERATION" => \A f \in Frames : InWindow(f) /\ st[f] = "DONE"
                                  => st'[f] \in {"DONE", "DROPPED"}]_vars
  <2> SUFFICES ASSUME TypeOK, OrderInv, AckInv, [Next]_vars, [NumberIsFree]_vars
               PROVE  \A f \in Frames : st[f] = "DONE" => st'[f] \in {"DONE", "DROPPED"}
    BY Zenon
  <2> QED
    BY AckStep DEF DoneStays
<1> QED
  BY <1>1, <1>2, <1>3, OrderKept, TypeCorrect, PTL DEF Spec, AckedIsFinal

\* tx_pkt_run_no has not come round yet: the numbers in ampdu_ssn are older.
NumbersInOrder == \A i \in Index : slots[i].run <= run

LEMMA NumbersStep ==
  ASSUME TypeOK, NumbersInOrder, run < MaxRun, [Next]_vars
  PROVE  NumbersInOrder' /\ NumberIsFree
<1> USE DEF vars, session, history, queueVars, winVars, chip, chipVars, walkVars, ctxVars
<1>1. /\ run \in Int /\ MaxRun \in Int /\ run >= 0 /\ slots \in [Index -> Records]
      /\ Free.run = 0 /\ \A i \in Index : slots[i].run \in Int
  BY SizesAssumption DEF TypeOK, Records, Free
<1>2. ASSUME run' = run, \A i \in Index : slots'[i] \in {slots[i], Free}
      PROVE  NumbersInOrder' /\ NumberIsFree
  BY <1>1, <1>2 DEF NumbersInOrder, NumberIsFree
<1>3. ASSUME UNCHANGED <<run, slots>> PROVE NumbersInOrder' /\ NumberIsFree
  BY <1>2, <1>3
<1>4. ASSUME NEW a, Acquire(a) PROVE NumbersInOrder' /\ NumberIsFree
  <2>1. run' = NewRun /\ NewRun = run + 1 /\ Packet(a).run = NewRun
    BY <1>1, <1>4 DEF Acquire, NewRun, Packet
  <2>2. \A i \in Index : slots'[i] \in {Packet(a), Free, slots[i]}
    BY <1>4 DEF Acquire
  <2> QED
    BY <1>1, <2>1, <2>2 DEF NumbersInOrder, NumberIsFree
<1>5. CASE Mac
  BY <1>3, <1>5, Zenon DEF Mac, TxStart, TxOperation, TxStop, StopMark, StopRelease, ClearTxq,
     ClearRetryq, ClearRelq, ClearEarly, ClearNext, StopEnd
<1>6. ASSUME NEW t, FlushSend(t) PROVE NumbersInOrder' /\ NumberIsFree
  BY <1>4, <1>6, Zenon DEF FlushSend
<1>7. ASSUME NEW t, FlushSync(t) \/ FlushDone(t) PROVE NumbersInOrder' /\ NumberIsFree
  BY <1>3, <1>7, Zenon DEF FlushSync, FlushDone
<1>8. ASSUME NEW t, NEW from, AmpduFlush(t, from) \/ CloseCurrent(t)
      PROVE  NumbersInOrder' /\ NumberIsFree
  BY <1>3, <1>8, Zenon DEF AmpduFlush, CloseCurrent
<1>9. ASSUME NEW t, NEW to, Release(t, to) PROVE NumbersInOrder' /\ NumberIsFree
  <2>1. run' = run /\ slots' = IF mark[t] = 0 THEN slots ELSE [slots EXCEPT ![mark[t]] = Free]
    BY <1>9, Zenon DEF Release
  <2> QED
    BY <1>1, <1>2, <2>1
<1>10. CASE TxTask
  BY <1>3, <1>6, <1>7, <1>8, <1>10, Zenon
     DEF TxTask, TxBypass, TxCheck, TxRefused, TxQueue, Aggregate, AggregateNoMem, AggregateDone
<1>11. CASE Hci
  BY <1>3, <1>11, Zenon DEF Hci, HciSend, HciSendFails
<1>12. CASE RxNoBaEvent
  <2>1. run' = run /\ \A i \in Index : slots'[i] \in {slots[i], Free}
    BY <1>12 DEF RxNoBaEvent
  <2> QED
    BY <1>2, <2>1
<1>13. CASE RxBa \/ RxRateRptNoBa \/ AirLost
  BY <1>3, <1>13, Zenon DEF RxBa, RxRateRptNoBa, AirLost
<1>14. CASE RetrySend
  BY <1>4, <1>14, Zenon DEF RetrySend
<1>15. CASE RxRateRpt \/ RxEnd \/ CollectLook \/ CollectPut \/ CollectDone \/ RetryTake
            \/ RetryNoMem \/ RetryDone \/ Report
  BY <1>3, <1>15, Zenon DEF RxRateRpt, RxEnd, CollectLook, CollectPut, CollectDone, RetryTake,
     RetryNoMem, RetryDone, Report
<1>20. CASE NoTimeoutFlush \/ CheckStart \/ CheckPass \/ CheckExpired \/ CheckDone
  BY <1>3, <1>20, Zenon DEF NoTimeoutFlush, CheckStart, CheckPass, CheckExpired, CheckDone
<1>16. CASE RcWork
  BY <1>3, <1>9, <1>16, Zenon DEF RcWork, RcNoBa, ReleaseNoBa
<1>17. CASE Chip
  BY <1>12, <1>13, <1>17, Zenon DEF Chip
<1>18. CASE RxTask
  BY <1>6, <1>7, <1>8, <1>9, <1>14, <1>15, <1>18, <1>20, Zenon
  DEF RxTask, ReleaseBa, ReleaseTimeout
<1>19. CASE UNCHANGED vars
  BY <1>3, <1>19
<1> QED
  BY <1>5, <1>10, <1>11, <1>16, <1>17, <1>18, <1>19, Zenon DEF Next

\* No number that is still recorded is taken before tx_pkt_run_no reaches
\* SSV6XXX_PKT_RUN_TYPE_AMPDU_END for the first time.
THEOREM NumbersFreeAtFirst == Spec /\ [](run < MaxRun) => [][NumberIsFree]_vars
<1>1. Init => NumbersInOrder
  BY DEF Init, NumbersInOrder, Free
<1>2. TypeOK /\ NumbersInOrder /\ run < MaxRun /\ [Next]_vars => NumbersInOrder' /\ NumberIsFree
  BY NumbersStep
<1> QED
  BY <1>1, <1>2, TypeCorrect, PTL DEF Spec

\* An acknowledged MPDU stays acknowledged in the A-MPDUs sent until then.
THEOREM AckedBeforeWrap ==
  ASSUME Steady, "bus" \notin Faults, MaxRun > 1
  PROVE  Spec /\ [](run < MaxRun) => AckedIsFinal
  BY NumbersFreeAtFirst, AckedStaysAcked, PTL

=============================================================================
