---------------------------- MODULE FiniteLemmas ----------------------------
(***************************************************************************)
(* Facts about bounded sets of numbers and about sequences that several    *)
(* proofs rest on.  The existence of a least number stands in for          *)
(* induction: a claim about all numbers up to n holds if there is no least *)
(* one for which it fails.                                                 *)
(***************************************************************************)
EXTENDS Integers, Sequences, FiniteSets, SequencesExt, SeqKept, TLAPS, SequenceTheorems,
        FiniteSetTheorems

\* A nonempty subset of 1 .. n has a greatest element: the numbers that are
\* not above all of S are as many as the greatest of them.
LEMMA GreatestIndex ==
  ASSUME NEW n \in Nat, NEW S \in SUBSET (1 .. n), S # {}
  PROVE  \E k \in S : \A j \in S : j <= k
<1> DEFINE B == {i \in 1 .. n : \E j \in S : i <= j}
           m == Cardinality(B)
<1>1. IsFiniteSet(1 .. n)
  BY FS_Interval
<1>2. IsFiniteSet(B) /\ m \in Nat
  BY <1>1, FS_Subset, FS_CardinalityType, Zenon
<1>3. S \subseteq B
  OBVIOUS
<1>4. ASSUME NEW x \in B PROVE x <= m
  <2>1. x \in 1 .. n /\ 1 .. x \subseteq B
    OBVIOUS
  <2>2. Cardinality(1 .. x) <= m
    BY <1>2, <2>1, FS_Subset, Zenon
  <2>3. Cardinality(1 .. x) = x
    BY <2>1, FS_Interval
  <2> QED
    BY <2>2, <2>3
<1> HIDE DEF m
<1>5. B = 1 .. m
  <2>1. B \subseteq 1 .. m
    BY <1>2, <1>4
  <2>2. IsFiniteSet(1 .. m) /\ Cardinality(1 .. m) = m
    BY <1>2, FS_Interval
  <2> QED
    BY <2>1, <2>2, FS_Subset, Zenon DEF m
<1>6. m \in B
  <2>1. 1 .. m # {}
    BY <1>3, <1>5
  <2>2. m \in 1 .. m
    BY <1>2, <2>1
  <2> QED
    BY <1>5, <2>2
<1>7. PICK k \in S : m <= k
  BY <1>6
<1>8. ASSUME NEW j \in S PROVE j <= k
  BY <1>2, <1>3, <1>4, <1>7
<1> QED
  BY <1>8

\* A nonempty set of numbers up to n has a least one.
LEMMA LeastNumber ==
  ASSUME NEW n \in Nat, NEW S \in SUBSET (0 .. n), S # {}
  PROVE  \E k \in S : \A j \in S : k <= j
<1> DEFINE T == {n + 1 - k : k \in S}
<1>1. T \in SUBSET (1 .. n + 1) /\ T # {} /\ n + 1 \in Nat
  <2>1. ASSUME NEW k \in S PROVE n + 1 - k \in 1 .. n + 1
    OBVIOUS
  <2>2. \E k \in S : n + 1 - k \in T
    OBVIOUS
  <2>3. n + 1 \in Nat
    OBVIOUS
  <2> QED
    BY <2>1, <2>2, <2>3, Zenon
<1>2. PICK g \in T : \A x \in T : x <= g
  BY <1>1, GreatestIndex
<1>3. PICK k \in S : g = n + 1 - k
  BY <1>2
<1>4. ASSUME NEW j \in S PROVE k <= j
  <2>1. n + 1 - j \in T /\ j \in Int /\ k \in Int
    OBVIOUS
  <2>2. n + 1 - j <= g
    BY <1>2, <2>1
  <2> QED
    BY <1>3, <2>1, <2>2
<1> QED
  BY <1>4

\* The two parts a sequence is cut into.
LEMMA PartsOfSeq ==
  ASSUME NEW S, NEW s \in Seq(S), NEW n \in 0 .. Len(s)
  PROVE  /\ SubSeq(s, 1, n) \in Seq(S) /\ Len(SubSeq(s, 1, n)) = n
         /\ SubSeq(s, n + 1, Len(s)) \in Seq(S)
  BY SubSeqProperties, LenProperties

\* A sequence and its first element.
LEMMA ConsProperties ==
  ASSUME NEW S, NEW s \in Seq(S), NEW e \in S
  PROVE  /\ <<e>> \in Seq(S) /\ Len(<<e>>) = 1
         /\ <<e>> \o s \in Seq(S) /\ Len(<<e>> \o s) = Len(s) + 1 /\ <<e>> \o s # <<>>
         /\ Head(<<e>> \o s) = e /\ Tail(<<e>> \o s) = s
<1>1. <<e>> \in Seq(S) /\ Len(<<e>>) = 1 /\ <<e>>[1] = e /\ Len(s) \in Nat
  BY LenProperties
<1> DEFINE t == <<e>> \o s
<1>2. /\ t \in Seq(S) /\ Len(t) = Len(s) + 1 /\ t[1] = e
      /\ \A i \in 1 .. Len(s) : t[i + 1] = s[i]
  BY <1>1, ConcatProperties
<1> HIDE DEF t
<1>3. t # <<>>
  BY <1>1, <1>2, EmptySeq
<1>4. Head(t) = e
  BY <1>2, <1>3
<1>5. Tail(t) = s
  <2>1. /\ Tail(t) \in Seq(S) /\ Len(Tail(t)) = Len(s)
        /\ \A i \in 1 .. Len(s) : Tail(t)[i] = s[i]
    <3>1. /\ Tail(t) \in Seq(S) /\ Len(Tail(t)) = Len(t) - 1
          /\ \A i \in 1 .. Len(Tail(t)) : Tail(t)[i] = t[i + 1]
      BY <1>2, <1>3, HeadTailProperties
    <3>2. Len(Tail(t)) = Len(s)
      BY <1>1, <1>2, <3>1
    <3> QED
      BY <1>2, <3>1, <3>2
  <2> QED
    BY <2>1, SeqEqual
<1> QED
  BY <1>1, <1>2, <1>3, <1>4, <1>5 DEF t

\* What was taken from the head is put back there.
LEMMA PutBackHead ==
  ASSUME NEW S, NEW s \in Seq(S), s # <<>>
  PROVE  Head(s) \in S /\ Tail(s) \in Seq(S) /\ <<Head(s)>> \o Tail(s) = s
<1>1. /\ Head(s) \in S /\ Tail(s) \in Seq(S) /\ Len(Tail(s)) = Len(s) - 1
      /\ Len(s) \in Nat \ {0} /\ Head(s) = s[1]
      /\ \A i \in 1 .. Len(Tail(s)) : Tail(s)[i] = s[i + 1]
  BY HeadTailProperties, EmptySeq
<1>2. /\ <<Head(s)>> \in Seq(S) /\ Len(<<Head(s)>>) = 1 /\ <<Head(s)>>[1] = Head(s)
  BY <1>1
<1> DEFINE t == <<Head(s)>> \o Tail(s)
<1>3. /\ t \in Seq(S) /\ Len(t) = 1 + Len(Tail(s))
      /\ \A i \in 1 .. 1 + Len(Tail(s)) : t[i] = IF i <= 1 THEN Head(s) ELSE Tail(s)[i - 1]
  BY <1>1, <1>2, ConcatProperties
<1> HIDE DEF t
<1>4. Len(t) = Len(s)
  BY <1>1, <1>3
<1>5. ASSUME NEW i \in 1 .. Len(t) PROVE t[i] = s[i]
  <2>1. CASE i = 1
    BY <1>1, <1>3, <2>1
  <2>2. CASE i # 1
    <3>1. i - 1 \in 1 .. Len(Tail(s)) /\ i \in 1 .. 1 + Len(Tail(s)) /\ ~(i <= 1)
      BY <1>1, <1>4, <2>2
    <3>2. t[i] = Tail(s)[i - 1] /\ Tail(s)[i - 1] = s[(i - 1) + 1]
      BY <1>1, <1>3, <3>1
    <3>3. (i - 1) + 1 = i
      OBVIOUS
    <3> QED
      BY <3>2, <3>3
  <2> QED
    BY <2>1, <2>2
<1>6. t = s
  BY <1>3, <1>4, <1>5, SeqEqual
<1> QED
  BY <1>1, <1>6 DEF t

\* A frame inserted behind the first k elements of a queue, for the values of
\* k that TxQueues allows.
LEMMA InsertFirst ==
  ASSUME NEW S, NEW s \in Seq(S), NEW f \in S
  PROVE  SubSeq(s, 1, 0) \o <<f>> \o SubSeq(s, 0 + 1, Len(s)) = <<f>> \o s
<1>1. SubSeq(s, 1, 0) = <<>>
  BY SubSeqEmpty
<1>2. SubSeq(s, 0 + 1, Len(s)) = s
  BY SubSeqFull
<1>3. <<>> \o <<f>> = <<f>>
  BY ConsProperties, ConcatEmptySeq
<1> QED
  BY <1>1, <1>2, <1>3

LEMMA InsertLast ==
  ASSUME NEW S, NEW s \in Seq(S), NEW f \in S
  PROVE  SubSeq(s, 1, Len(s)) \o <<f>> \o SubSeq(s, Len(s) + 1, Len(s)) = Append(s, f)
<1>1. SubSeq(s, 1, Len(s)) = s
  BY SubSeqFull
<1>2. SubSeq(s, Len(s) + 1, Len(s)) = <<>>
  <2>1. Len(s) \in Int /\ Len(s) + 1 \in Int /\ Len(s) < Len(s) + 1
    BY LenProperties
  <2> QED
    BY <2>1, SubSeqEmpty
<1>3. s \o <<f>> = Append(s, f) /\ Append(s, f) \in Seq(S)
  BY AppendIsConcat, AppendProperties
<1>4. Append(s, f) \o <<>> = Append(s, f)
  BY <1>3, ConcatEmptySeq
<1> QED
  BY <1>1, <1>2, <1>3, <1>4

LEMMA InsertSecond ==
  ASSUME NEW S, NEW s \in Seq(S), NEW h \in S, NEW f \in S, NEW w, w = <<h>> \o s
  PROVE  SubSeq(w, 1, 1) \o <<f>> \o SubSeq(w, 1 + 1, Len(w)) = <<h>> \o (<<f>> \o s)
<1>1. /\ <<h>> \in Seq(S) /\ Len(<<h>>) = 1 /\ <<f>> \in Seq(S) /\ Len(s) \in Nat
      /\ w \in Seq(S) /\ Len(w) = Len(s) + 1 /\ w # <<>> /\ Tail(w) = s
  BY ConsProperties, LenProperties
<1>2. SubSeq(w, 1, 1) = <<h>>
  <2>1. 1 \in 1 .. Len(<<h>>)
    BY <1>1
  <2>2. SubSeq(<<h>> \o s, 1, 1) = SubSeq(<<h>>, 1, 1)
    BY <1>1, <2>1, SubSeqOfConcat1
  <2>3. SubSeq(<<h>>, 1, Len(<<h>>)) = <<h>>
    BY <1>1, SubSeqFull
  <2> QED
    BY <1>1, <2>2, <2>3
<1>3. SubSeq(w, 1 + 1, Len(w)) = s
  BY <1>1, TailIsSubSeq
<1> QED
  BY <1>1, <1>2, <1>3, ConcatAssociative

LEMMA AppendBehind ==
  ASSUME NEW S, NEW s \in Seq(S), NEW h \in S, NEW f \in S
  PROVE  Append(<<h>> \o s, f) = <<h>> \o Append(s, f)
<1>1. /\ <<h>> \in Seq(S) /\ <<f>> \in Seq(S) /\ <<h>> \o s \in Seq(S)
  BY ConsProperties
<1>2. (<<h>> \o s) \o <<f>> = <<h>> \o (s \o <<f>>)
  BY <1>1, ConcatAssociative
<1>3. s \o <<f>> = Append(s, f) /\ (<<h>> \o s) \o <<f>> = Append(<<h>> \o s, f)
  BY <1>1, AppendIsConcat
<1> QED
  BY <1>2, <1>3
\* Places of a sequence that loses its head or gets an element more.
LEMMA TailPlaces ==
  ASSUME NEW S, NEW s \in Seq(S), s # <<>>
  PROVE  /\ Len(s) \in Nat \ {0} /\ Len(Tail(s)) = Len(s) - 1 /\ Head(s) = s[1]
         /\ \A j \in 1 .. Len(Tail(s)) : Tail(s)[j] = s[j + 1] /\ j + 1 \in 1 .. Len(s) /\ j + 1 # 1
<1>1. /\ Len(Tail(s)) = Len(s) - 1 /\ Len(s) \in Nat \ {0} /\ Head(s) = s[1]
      /\ \A j \in 1 .. Len(Tail(s)) : Tail(s)[j] = s[j + 1]
  BY HeadTailProperties, EmptySeq, LenProperties
<1> QED
  BY <1>1

LEMMA AppendPlaces ==
  ASSUME NEW S, NEW s \in Seq(S), NEW e \in S
  PROVE  /\ Len(s) \in Nat /\ Len(Append(s, e)) = Len(s) + 1
         /\ \A j \in 1 .. Len(Append(s, e)) :
              \/ j \in 1 .. Len(s) /\ Append(s, e)[j] = s[j]
              \/ j = Len(s) + 1 /\ Append(s, e)[j] = e
<1>1. Len(s) \in Nat /\ Len(Append(s, e)) = Len(s) + 1 /\ Append(s, e)[Len(s) + 1] = e
      /\ \A j \in 1 .. Len(s) : Append(s, e)[j] = s[j]
  BY AppendProperties, LenProperties
<1> QED
  BY <1>1
-----------------------------------------------------------------------------
(* What is left of a queue (SeqKept)                                       *)

\* The numbers of I, by their rank.
LEMMA Ranks ==
  ASSUME NEW n \in Nat, NEW I \in SUBSET (1 .. n)
  PROVE  LET Nth(k) == CHOOSE i \in I : Cardinality({j \in I : j <= i}) = k
         IN  /\ Cardinality(I) \in 0 .. n
             /\ \A k \in 1 .. Cardinality(I) : Nth(k) \in I
             /\ \A j, k \in 1 .. Cardinality(I) : j < k => Nth(j) < Nth(k)
             /\ \A i \in I : \E k \in 1 .. Cardinality(I) : Nth(k) = i
<1> DEFINE Upto(i) == {j \in I : j <= i}
           m == Cardinality(I)
           R == [i \in I |-> Cardinality(Upto(i))]
           Nth(k) == CHOOSE i \in I : Cardinality(Upto(i)) = k
<1>1. IsFiniteSet(1 .. n) /\ Cardinality(1 .. n) = n
  BY FS_Interval
<1>2. IsFiniteSet(I) /\ m \in Nat /\ m <= n
  BY <1>1, FS_Subset, FS_CardinalityType, Zenon
<1>a. \A x \in I : x \in Int
  OBVIOUS
<1>3. ASSUME NEW i \in I
      PROVE  IsFiniteSet(Upto(i)) /\ R[i] = Cardinality(Upto(i)) /\ R[i] \in 1 .. m
  <2>1. Upto(i) \in SUBSET I /\ i \in Upto(i)
    OBVIOUS
  <2>2. IsFiniteSet(Upto(i)) /\ Cardinality(Upto(i)) <= m
    BY <1>2, <2>1, FS_Subset, Zenon
  <2>3. Cardinality(Upto(i)) \in Nat /\ Cardinality(Upto(i)) # 0
    BY <2>1, <2>2, FS_CardinalityType, FS_EmptySet, Zenon
  <2>4. R[i] = Cardinality(Upto(i))
    BY Zenon
  <2> QED
    BY <1>2, <2>2, <2>3, <2>4
<1>4. ASSUME NEW i \in I, NEW j \in I, i < j
      PROVE  R[i] < R[j]
  <2>0. i \in Int /\ j \in Int /\ j <= j /\ ~(j <= i) /\ \A x \in Int : x <= i => x <= j
    BY <1>4, <1>a
  <2>1. Upto(i) \in SUBSET Upto(j) /\ j \in Upto(j) /\ j \notin Upto(i)
    BY <1>a, <2>0, Zenon
  <2>2. Cardinality(Upto(i)) <= Cardinality(Upto(j)) /\ Cardinality(Upto(i)) # Cardinality(Upto(j))
    BY <1>3, <2>1, FS_Subset, Zenon
  <2>3. R[i] \in 1 .. m /\ R[j] \in 1 .. m /\ R[i] <= R[j] /\ R[i] # R[j]
    BY <1>3, <2>2, Zenon
  <2> HIDE DEF R, m
  <2> QED
    BY <1>2, <2>3
<1>5. R \in Injection(I, 1 .. m)
  <2>1. R \in [I -> 1 .. m]
    BY <1>3, Zenon
  <2>2. ASSUME NEW i \in I, NEW j \in I, R[i] = R[j] PROVE i = j
    <3>1. R[i] \in 1 .. m /\ R[j] \in 1 .. m
      BY <1>3, Zenon
    <3>2. (i < j => R[i] < R[j]) /\ (j < i => R[j] < R[i])
      BY <1>4, Zenon
    <3> HIDE DEF R, m
    <3>3. ~(i < j) /\ ~(j < i)
      BY <1>2, <2>2, <3>1, <3>2
    <3> QED
      BY <1>a, <3>3
  <2> HIDE DEF R
  <2> QED
    BY <2>1, <2>2, Zenon DEF Injection, IsInjective
<1>6. R \in Surjection(I, 1 .. m)
  <2>1. IsFiniteSet(1 .. m) /\ Cardinality(1 .. m) = m
    BY <1>2, FS_Interval
  <2> QED
    BY <1>5, <2>1, FS_Injection, Zenon
<1>7. ASSUME NEW k \in 1 .. m PROVE Nth(k) \in I /\ R[Nth(k)] = k
  <2>1. \E i \in I : R[i] = k
    BY <1>6, Zenon DEF Surjection
  <2>2. \E i \in I : Cardinality(Upto(i)) = k
    BY <1>3, <2>1, Zenon
  <2>3. Nth(k) \in I /\ Cardinality(Upto(Nth(k))) = k
    BY <2>2, Zenon
  <2> QED
    BY <1>3, <2>3, Zenon
<1>8. ASSUME NEW j \in 1 .. m, NEW k \in 1 .. m, j < k
      PROVE  Nth(j) < Nth(k)
  <2>1. Nth(j) \in I /\ Nth(k) \in I /\ R[Nth(j)] = j /\ R[Nth(k)] = k
    BY <1>7
  <2>2. Nth(k) < Nth(j) => R[Nth(k)] < R[Nth(j)]
    BY <1>4, <2>1, Zenon
  <2> HIDE DEF Nth, R, m
  <2>3. Nth(j) # Nth(k) /\ ~(Nth(k) < Nth(j))
    BY <1>2, <1>8, <2>1, <2>2
  <2>4. Nth(j) \in Int /\ Nth(k) \in Int
    BY <1>a, <2>1, Zenon
  <2> QED
    BY <2>3, <2>4
<1>9. m \in 0 .. n
  BY <1>2
<1>10. ASSUME NEW i \in I PROVE \E k \in 1 .. m : Nth(k) = i
  <2>1. R[i] \in 1 .. m
    BY <1>3, Zenon
  <2>2. Nth(R[i]) \in I /\ R[Nth(R[i])] = R[i]
    BY <1>7, <2>1, Zenon
  <2>3. Nth(R[i]) = i
    BY <1>5, <2>2, Zenon DEF Injection, IsInjective
  <2> QED
    BY <2>1, <2>3, Zenon
<1> QED
  BY <1>7, <1>8, <1>9, <1>10, Zenon

\* What is kept of a queue are members of it, in the order of the queue.
LEMMA OnlyIsPart ==
  ASSUME NEW T, NEW s \in Seq(T), NEW S
  PROVE  /\ Len(Only(s, S)) \in 0 .. Len(s) /\ Only(s, S) \in Seq(T)
         /\ \E h \in [1 .. Len(Only(s, S)) -> 1 .. Len(s)] :
              /\ \A k \in 1 .. Len(Only(s, S)) : Only(s, S)[k] = s[h[k]] /\ s[h[k]] \in S
              /\ \A j, k \in 1 .. Len(Only(s, S)) : j < k => h[j] < h[k]
<1> DEFINE I == {i \in 1 .. Len(s) : s[i] \in S}
           m == Cardinality(I)
           Nth(k) == CHOOSE i \in I : Cardinality({j \in I : j <= i}) = k
           h == [k \in 1 .. m |-> Nth(k)]
<1>1. Len(s) \in Nat /\ I \in SUBSET (1 .. Len(s))
  OBVIOUS
<1>2. /\ m \in 0 .. Len(s) /\ \A k \in 1 .. m : Nth(k) \in I
      /\ \A j, k \in 1 .. m : j < k => Nth(j) < Nth(k)
  BY <1>1, Ranks, Zenon
<1>3. Only(s, S) = [k \in 1 .. m |-> s[Nth(k)]]
  BY Zenon DEF Only
<1>4. \A k \in 1 .. m : h[k] = Nth(k)
  BY Zenon
<1>5. h \in [1 .. m -> I]
  BY <1>2, Zenon
<1>6. \A j, k \in 1 .. m : j < k => h[j] < h[k]
  BY <1>2, <1>4, Zenon
<1>7. Only(s, S) = [k \in 1 .. m |-> s[h[k]]]
  BY <1>3, Zenon
<1> HIDE DEF h, m, Nth
<1>8. Len(Only(s, S)) = m /\ Only(s, S) \in Seq(T)
  BY <1>2, <1>5, <1>7
<1>9. h \in [1 .. m -> 1 .. Len(s)] /\ \A k \in 1 .. m : Only(s, S)[k] = s[h[k]] /\ s[h[k]] \in S
  BY <1>5, <1>7
<1> QED
  BY <1>2, <1>6, <1>8, <1>9

\* The members of a queue that gains one, loses its first, joins another, or
\* loses some in the middle.
LEMMA AppendMembers ==
  ASSUME NEW T, NEW s \in Seq(T), NEW e \in T
  PROVE  Append(s, e) \in Seq(T) /\ ToSet(Append(s, e)) = ToSet(s) \cup {e}
<1>1. /\ Append(s, e) \in Seq(T) /\ DOMAIN Append(s, e) = 1 .. Len(s) + 1
      /\ DOMAIN s = 1 .. Len(s) /\ Len(s) \in Nat
      /\ \A i \in 1 .. Len(s) : Append(s, e)[i] = s[i]
      /\ Append(s, e)[Len(s) + 1] = e
  BY AppendProperties, LenProperties
<1> DEFINE t == Append(s, e)
<1> HIDE DEF t
<1>2. ToSet(t) = ToSet(s) \cup {e}
  BY <1>1 DEF ToSet, t
<1> QED
  BY <1>1, <1>2 DEF t

LEMMA TailMembers ==
  ASSUME NEW T, NEW s \in Seq(T), s # <<>>
  PROVE  /\ Tail(s) \in Seq(T) /\ Head(s) \in T /\ Head(s) \in ToSet(s)
         /\ ToSet(s) = ToSet(Tail(s)) \cup {Head(s)}
<1>1. /\ Tail(s) \in Seq(T) /\ Head(s) \in T /\ Head(s) = s[1] /\ Len(Tail(s)) = Len(s) - 1
      /\ \A i \in 1 .. Len(Tail(s)) : Tail(s)[i] = s[i + 1]
      /\ DOMAIN s = 1 .. Len(s) /\ Len(s) \in Nat \ {0} /\ DOMAIN Tail(s) = 1 .. Len(Tail(s))
  BY HeadTailProperties, LenProperties, TailPlaces
<1> DEFINE t == Tail(s)
           a == Head(s)
<1> HIDE DEF t, a
<1>2. ASSUME NEW x \in ToSet(s) PROVE x \in ToSet(t) \cup {a}
  <2>1. PICK i \in 1 .. Len(s) : x = s[i]
    BY <1>1 DEF ToSet
  <2>2. i = 1 \/ (i - 1 \in 1 .. Len(t) /\ t[i - 1] = s[i])
    BY <1>1 DEF t
  <2> QED
    BY <1>1, <2>1, <2>2 DEF ToSet, t, a
<1>3. ASSUME NEW x \in ToSet(t) PROVE x \in ToSet(s)
  <2>1. PICK i \in 1 .. Len(t) : x = t[i]
    BY <1>1 DEF ToSet, t
  <2>2. i + 1 \in 1 .. Len(s) /\ s[i + 1] = x
    BY <1>1, <2>1 DEF t
  <2> QED
    BY <1>1, <2>2 DEF ToSet
<1>4. a \in ToSet(s)
  BY <1>1 DEF ToSet, a
<1>5. ToSet(s) = ToSet(t) \cup {a}
  BY <1>2, <1>3, <1>4, Zenon
<1> QED
  BY <1>1, <1>4, <1>5 DEF t, a

LEMMA ConcatMembers ==
  ASSUME NEW T, NEW s \in Seq(T), NEW t \in Seq(T)
  PROVE  s \o t \in Seq(T) /\ ToSet(s \o t) = ToSet(s) \cup ToSet(t)
<1>1. /\ s \o t \in Seq(T) /\ DOMAIN (s \o t) = 1 .. Len(s) + Len(t)
      /\ DOMAIN s = 1 .. Len(s) /\ Len(s) \in Nat /\ DOMAIN t = 1 .. Len(t) /\ Len(t) \in Nat
      /\ \A i \in 1 .. Len(s) + Len(t) : (s \o t)[i] = IF i <= Len(s) THEN s[i] ELSE t[i - Len(s)]
  BY ConcatProperties, LenProperties
<1> DEFINE u == s \o t
<1> HIDE DEF u
<1>2. ASSUME NEW x \in ToSet(u) PROVE x \in ToSet(s) \cup ToSet(t)
  <2>1. PICK i \in 1 .. Len(s) + Len(t) : x = u[i]
    BY <1>1 DEF ToSet, u
  <2>2. \/ i \in 1 .. Len(s) /\ x = s[i]
        \/ i - Len(s) \in 1 .. Len(t) /\ x = t[i - Len(s)]
    BY <1>1, <2>1 DEF u
  <2> QED
    BY <1>1, <2>2 DEF ToSet
<1>3. ASSUME NEW x \in ToSet(s) PROVE x \in ToSet(u)
  <2>1. PICK i \in 1 .. Len(s) : x = s[i]
    BY <1>1 DEF ToSet
  <2>2. i \in 1 .. Len(s) + Len(t) /\ u[i] = x
    BY <1>1, <2>1 DEF u
  <2> QED
    BY <1>1, <2>2 DEF ToSet, u
<1>4. ASSUME NEW x \in ToSet(t) PROVE x \in ToSet(u)
  <2>1. PICK i \in 1 .. Len(t) : x = t[i]
    BY <1>1 DEF ToSet
  <2>2. i + Len(s) \in 1 .. Len(s) + Len(t) /\ u[i + Len(s)] = x
    BY <1>1, <2>1 DEF u
  <2> QED
    BY <1>1, <2>2 DEF ToSet, u
<1>5. ToSet(u) = ToSet(s) \cup ToSet(t)
  BY <1>2, <1>3, <1>4, Zenon
<1> QED
  BY <1>1, <1>5 DEF u

LEMMA OnlyMembers ==
  ASSUME NEW T, NEW s \in Seq(T), NEW S
  PROVE  Only(s, S) \in Seq(T) /\ ToSet(Only(s, S)) \subseteq ToSet(s) \cap S
<1> DEFINE t == Only(s, S)
<1> HIDE DEF t
<1>1. /\ t \in Seq(T)
      /\ \E h \in [1 .. Len(t) -> 1 .. Len(s)] :
           \A k \in 1 .. Len(t) : t[k] = s[h[k]] /\ s[h[k]] \in S
  BY OnlyIsPart, Zenon DEF t
<1>2. DOMAIN s = 1 .. Len(s) /\ DOMAIN t = 1 .. Len(t)
  BY <1>1, LenProperties
<1>3. ToSet(t) \subseteq ToSet(s) \cap S
  BY <1>1, <1>2 DEF ToSet
<1> QED
  BY <1>1, <1>3 DEF t

\* Nothing that is to be kept is lost.
LEMMA OnlyKeeps ==
  ASSUME NEW T, NEW s \in Seq(T), NEW S
  PROVE  ToSet(s) \cap S \subseteq ToSet(Only(s, S))
<1> DEFINE I == {i \in 1 .. Len(s) : s[i] \in S}
           m == Cardinality(I)
           Nth(k) == CHOOSE i \in I : Cardinality({j \in I : j <= i}) = k
<1>1. Len(s) \in Nat /\ DOMAIN s = 1 .. Len(s) /\ I \in SUBSET (1 .. Len(s))
  OBVIOUS
<1>2. m \in 0 .. Len(s) /\ \A i \in I : \E k \in 1 .. m : Nth(k) = i
  BY <1>1, Ranks, Zenon
<1>3. Only(s, S) = [k \in 1 .. m |-> s[Nth(k)]]
  BY Zenon DEF Only
<1>4. ASSUME NEW x \in ToSet(s) \cap S PROVE x \in ToSet(Only(s, S))
  <2>1. PICK i \in I : x = s[i]
    BY <1>1 DEF ToSet
  <2>2. PICK k \in 1 .. m : Nth(k) = i
    BY <1>2, Zenon
  <2>3. k \in DOMAIN Only(s, S) /\ Only(s, S)[k] = x
    BY <1>3, <2>1, <2>2, Zenon
  <2> QED
    BY <2>3, Zenon DEF ToSet
<1> QED
  BY <1>4, Zenon

LEMMA WithoutMembers ==
  ASSUME NEW T, NEW s \in Seq(T), NEW S
  PROVE  Without(s, S) \in Seq(T) /\ ToSet(Without(s, S)) \subseteq ToSet(s) \ S
<1>1. \A R : Only(s, R) \in Seq(T) /\ ToSet(Only(s, R)) \subseteq ToSet(s) \cap R
  BY OnlyMembers, Zenon
<1> DEFINE R == {s[i] : i \in 1 .. Len(s)} \ S
<1>2. Without(s, S) = Only(s, R)
  BY Zenon DEF Without
<1>3. \A x \in R : x \notin S
  OBVIOUS
<1> HIDE DEF R
<1>4. Only(s, R) \in Seq(T) /\ ToSet(Only(s, R)) \subseteq ToSet(s) \cap R
  BY <1>1, Zenon
<1> DEFINE t == Only(s, R)
<1> HIDE DEF t
<1>5. t \in Seq(T) /\ ToSet(t) \subseteq ToSet(s) \ S
  BY <1>3, <1>4 DEF t
<1> QED
  BY <1>2, <1>5 DEF t

LEMMA WithoutExactly ==
  ASSUME NEW T, NEW s \in Seq(T), NEW S
  PROVE  ToSet(Without(s, S)) = ToSet(s) \ S
<1> DEFINE M == {s[i] : i \in 1 .. Len(s)}
<1>1. ToSet(s) = M
  BY LenProperties, Zenon DEF ToSet
<1>2. Without(s, S) = Only(s, M \ S)
  BY Zenon DEF Without
<1>3. ToSet(s) \cap (M \ S) \subseteq ToSet(Without(s, S))
  BY <1>2, OnlyKeeps, Zenon
<1>4. ToSet(s) \ S \subseteq ToSet(s) \cap (M \ S)
  BY <1>1, Zenon
<1> QED
  BY <1>3, <1>4, WithoutMembers, Zenon

\* A queue of numbers in increasing order stays one.
Rising(s) == \A j, k \in 1 .. Len(s) : j < k => s[j] < s[k]

LEMMA AppendRising ==
  ASSUME NEW s \in Seq(Nat), NEW e \in Nat, Rising(s), \A p \in ToSet(s) : p < e
  PROVE  Rising(Append(s, e))
<1>1. /\ Len(Append(s, e)) = Len(s) + 1
      /\ Len(s) \in Nat
      /\ \A i \in 1 .. Len(s) : Append(s, e)[i] = s[i]
      /\ Append(s, e)[Len(s) + 1] = e
  BY AppendProperties, LenProperties
<1>2. \A i \in 1 .. Len(s) : s[i] < e
  BY LenProperties DEF ToSet
<1> DEFINE t == Append(s, e)
<1> HIDE DEF t
<1>3. Rising(t)
  BY <1>1, <1>2 DEF Rising, t
<1> QED
  BY <1>3 DEF t

LEMMA TailRising ==
  ASSUME NEW s \in Seq(Nat), s # <<>>, Rising(s)
  PROVE  Rising(Tail(s)) /\ \A p \in ToSet(Tail(s)) : Head(s) < p
<1>1. /\ Head(s) = s[1] /\ Len(Tail(s)) = Len(s) - 1
      /\ \A i \in 1 .. Len(Tail(s)) : Tail(s)[i] = s[i + 1]
      /\ Len(s) \in Nat \ {0} /\ DOMAIN Tail(s) = 1 .. Len(Tail(s))
  BY HeadTailProperties, LenProperties, TailPlaces
<1> DEFINE t == Tail(s)
           a == Head(s)
<1> HIDE DEF t, a
<1>2. Rising(t)
  BY <1>1 DEF Rising, t
<1>3. \A i \in 1 .. Len(t) : a < t[i]
  BY <1>1 DEF Rising, t, a
<1>4. \A p \in ToSet(t) : a < p
  BY <1>1, <1>3 DEF ToSet, t
<1> QED
  BY <1>2, <1>4 DEF t, a

LEMMA OnlyRising ==
  ASSUME NEW s \in Seq(Nat), NEW S, Rising(s)
  PROVE  Rising(Only(s, S)) /\ Rising(Without(s, S))
<1>1. ASSUME NEW R PROVE Rising(Only(s, R))
  <2> DEFINE t == Only(s, R)
  <2> HIDE DEF t
  <2>1. PICK h \in [1 .. Len(t) -> 1 .. Len(s)] :
          /\ \A k \in 1 .. Len(t) : t[k] = s[h[k]] /\ s[h[k]] \in R
          /\ \A j, k \in 1 .. Len(t) : j < k => h[j] < h[k]
    BY OnlyIsPart DEF t
  <2>2. ASSUME NEW j \in 1 .. Len(t), NEW k \in 1 .. Len(t), j < k PROVE t[j] < t[k]
    <3>1. h[j] \in 1 .. Len(s) /\ h[k] \in 1 .. Len(s) /\ h[j] < h[k]
      BY <2>1, <2>2
    <3>2. s[h[j]] < s[h[k]]
      BY <3>1, Zenon DEF Rising
    <3> QED
      BY <2>1, <3>2, Zenon
  <2> QED
    BY <2>2, Zenon DEF t, Rising
<1> QED
  BY <1>1, Zenon DEF Without

\* What comes first in a queue that is in order.
LEMMA FirstOfRising ==
  ASSUME NEW s \in Seq(Nat), Rising(s), NEW n \in 0 .. Len(s)
  PROVE  /\ SubSeq(s, 1, n) \in Seq(Nat) /\ Rising(SubSeq(s, 1, n))
         /\ ToSet(SubSeq(s, 1, n)) \subseteq ToSet(s)
         /\ \A p \in ToSet(SubSeq(s, 1, n)), q \in ToSet(s) \ ToSet(SubSeq(s, 1, n)) : p < q
<1> DEFINE t == SubSeq(s, 1, n)
<1>1. /\ t \in Seq(Nat) /\ Len(t) = n /\ DOMAIN t = 1 .. n /\ DOMAIN s = 1 .. Len(s)
      /\ Len(s) \in Nat /\ \A i \in 1 .. n : t[i] = s[i]
  BY SubSeqProperties, LenProperties
<1> HIDE DEF t
<1>2. Rising(t)
  BY <1>1 DEF Rising
<1>3. ToSet(t) \subseteq ToSet(s)
  BY <1>1 DEF ToSet
<1>4. ASSUME NEW p \in ToSet(t), NEW q \in ToSet(s) \ ToSet(t)
      PROVE  p < q
  <2>1. PICK i \in 1 .. n : p = s[i]
    BY <1>1 DEF ToSet
  <2>2. PICK j \in 1 .. Len(s) : q = s[j]
    BY <1>1 DEF ToSet
  <2>3. j \notin 1 .. n
    BY <1>1, <2>2 DEF ToSet
  <2>4. i \in 1 .. Len(s) /\ i < j
    BY <1>1, <2>3
  <2> QED
    BY <2>1, <2>2, <2>4 DEF Rising
<1> QED
  BY <1>1, <1>2, <1>3, <1>4 DEF t

\* The members of a queue that are in S are in order.
RisingIn(s, S) ==
  \A j, k \in 1 .. Len(s) : j < k /\ {s[j], s[k]} \subseteq S => s[j] < s[k]

LEMMA ConcatRisingIn ==
  ASSUME NEW T \in SUBSET Nat, NEW s \in Seq(T), NEW t \in Seq(T), NEW S,
         RisingIn(s, S), Rising(t), \A p \in ToSet(s) \cap S, q \in ToSet(t) : p < q
  PROVE  RisingIn(s \o t, S)
<1>1. /\ Len(s \o t) = Len(s) + Len(t)
      /\ DOMAIN s = 1 .. Len(s) /\ Len(s) \in Nat /\ DOMAIN t = 1 .. Len(t) /\ Len(t) \in Nat
      /\ \A i \in 1 .. Len(s) + Len(t) : (s \o t)[i] = IF i <= Len(s) THEN s[i] ELSE t[i - Len(s)]
  BY ConcatProperties, LenProperties
<1> DEFINE u == s \o t
<1> HIDE DEF u
<1>2. ASSUME NEW j \in 1 .. Len(u), NEW k \in 1 .. Len(u), j < k, u[j] \in S, u[k] \in S
      PROVE  u[j] < u[k]
  <2>1. CASE k <= Len(s)
    <3>1. j \in 1 .. Len(s) /\ k \in 1 .. Len(s) /\ u[j] = s[j] /\ u[k] = s[k]
      BY <1>1, <1>2, <2>1 DEF u
    <3> QED
      BY <1>2, <3>1 DEF RisingIn
  <2>2. CASE ~(k <= Len(s)) /\ j <= Len(s)
    <3>1. j \in 1 .. Len(s) /\ k - Len(s) \in 1 .. Len(t) /\ u[j] = s[j] /\ u[k] = t[k - Len(s)]
      BY <1>1, <1>2, <2>2 DEF u
    <3>2. u[j] \in ToSet(s) \cap S /\ u[k] \in ToSet(t)
      BY <1>1, <1>2, <3>1 DEF ToSet
    <3> QED
      BY <3>2
  <2>3. CASE ~(k <= Len(s)) /\ ~(j <= Len(s))
    <3>1. /\ j - Len(s) \in 1 .. Len(t) /\ k - Len(s) \in 1 .. Len(t)
          /\ u[j] = t[j - Len(s)] /\ u[k] = t[k - Len(s)] /\ j - Len(s) < k - Len(s)
      BY <1>1, <1>2, <2>3 DEF u
    <3> QED
      BY <3>1 DEF Rising
  <2> QED
    BY <2>1, <2>2, <2>3
<1> QED
  BY <1>2 DEF RisingIn, u

LEMMA AppendRisingIn ==
  ASSUME NEW T, NEW s \in Seq(T), NEW e \in T, NEW S, RisingIn(s, S), e \notin S
  PROVE  RisingIn(Append(s, e), S)
<1>1. /\ Len(Append(s, e)) = Len(s) + 1
      /\ Len(s) \in Nat
      /\ \A i \in 1 .. Len(s) : Append(s, e)[i] = s[i]
      /\ Append(s, e)[Len(s) + 1] = e
  BY AppendProperties, LenProperties
<1> DEFINE t == Append(s, e)
<1> HIDE DEF t
<1>3. RisingIn(t, S)
  BY <1>1 DEF RisingIn, t
<1> QED
  BY <1>3 DEF t

\* Nothing is taken out of a queue that has only members of S.
LEMMA OnlyAll ==
  ASSUME NEW T, NEW s \in Seq(T), NEW S, ToSet(s) \subseteq S
  PROVE  Only(s, S) = s
<1> DEFINE I == {i \in 1 .. Len(s) : s[i] \in S}
           Nth(k) == CHOOSE i \in I : Cardinality({j \in I : j <= i}) = k
<1>1. Len(s) \in Nat /\ DOMAIN s = 1 .. Len(s) /\ s = [k \in 1 .. Len(s) |-> s[k]]
  OBVIOUS
<1>2. I = 1 .. Len(s)
  BY <1>1 DEF ToSet
<1>3. ASSUME NEW i \in I PROVE Cardinality({j \in I : j <= i}) = i
  <2>1. i \in Int /\ i \in 1 .. Len(s)
    BY <1>2
  <2>2. {j \in I : j <= i} = 1 .. i
    BY <1>1, <1>2, <2>1
  <2>3. Cardinality(1 .. i) = i
    BY <2>1, FS_Interval
  <2> QED
    BY <2>2, <2>3, Zenon
<1>4. ASSUME NEW k \in I PROVE Nth(k) = k
  <2>1. \E i \in I : Cardinality({j \in I : j <= i}) = k
    BY <1>3, Zenon
  <2>2. Nth(k) \in I /\ Cardinality({j \in I : j <= Nth(k)}) = k
    BY <2>1, Zenon
  <2> QED
    BY <1>3, <2>2, Zenon
<1>5. Cardinality(I) = Len(s)
  <2>1. Cardinality(1 .. Len(s)) = Len(s)
    BY <1>1, FS_Interval
  <2> QED
    BY <1>2, <2>1, Zenon
<1>6. Only(s, S) = [k \in 1 .. Cardinality(I) |-> s[Nth(k)]]
  BY Zenon DEF Only
<1> HIDE DEF Nth
<1>7. Only(s, S) = [k \in 1 .. Len(s) |-> s[k]]
  BY <1>2, <1>4, <1>5, <1>6
<1> QED
  BY <1>1, <1>7, Zenon

LEMMA WithoutAbsent ==
  ASSUME NEW T, NEW s \in Seq(T), NEW e, e \notin ToSet(s)
  PROVE  Without(s, {e}) = s
<1>1. ToSet(s) = {s[i] : i \in 1 .. Len(s)}
  BY LenProperties, Zenon DEF ToSet
<1>2. ToSet(s) \subseteq {s[i] : i \in 1 .. Len(s)} \ {e}
  BY <1>1
<1> QED
  BY <1>2, OnlyAll, Zenon DEF Without

\* A queue that has nothing twice.
NoneTwice(s) == \A j, k \in 1 .. Len(s) : j # k => s[j] # s[k]

LEMMA AppendNoneTwice ==
  ASSUME NEW T, NEW s \in Seq(T), NEW e \in T, NoneTwice(s), e \notin ToSet(s)
  PROVE  NoneTwice(Append(s, e))
<1>1. /\ Len(Append(s, e)) = Len(s) + 1
      /\ Len(s) \in Nat
      /\ \A i \in 1 .. Len(s) : Append(s, e)[i] = s[i]
      /\ Append(s, e)[Len(s) + 1] = e
  BY AppendProperties, LenProperties
<1>2. \A i \in 1 .. Len(s) : s[i] # e
  BY LenProperties DEF ToSet
<1> DEFINE t == Append(s, e)
<1> HIDE DEF t
<1>3. NoneTwice(t)
  BY <1>1, <1>2 DEF NoneTwice, t
<1> QED
  BY <1>3 DEF t

LEMMA TailNoneTwice ==
  ASSUME NEW T, NEW s \in Seq(T), s # <<>>, NoneTwice(s)
  PROVE  NoneTwice(Tail(s)) /\ Head(s) \notin ToSet(Tail(s))
<1>1. /\ Head(s) = s[1] /\ Len(Tail(s)) = Len(s) - 1
      /\ \A i \in 1 .. Len(Tail(s)) : Tail(s)[i] = s[i + 1]
      /\ Len(s) \in Nat \ {0} /\ DOMAIN Tail(s) = 1 .. Len(Tail(s))
  BY HeadTailProperties, LenProperties, TailPlaces
<1> DEFINE t == Tail(s)
           a == Head(s)
<1> HIDE DEF t, a
<1>2. NoneTwice(t)
  BY <1>1 DEF NoneTwice, t
<1>3. \A i \in 1 .. Len(t) : a # t[i]
  BY <1>1 DEF NoneTwice, t, a
<1>4. a \notin ToSet(t)
  BY <1>1, <1>3 DEF ToSet, t
<1> QED
  BY <1>2, <1>4 DEF t, a

LEMMA WithoutNoneTwice ==
  ASSUME NEW T, NEW s \in Seq(T), NEW S, NoneTwice(s)
  PROVE  NoneTwice(Without(s, S))
<1>1. ASSUME NEW R PROVE NoneTwice(Only(s, R))
  <2> DEFINE t == Only(s, R)
  <2> HIDE DEF t
  <2>1. PICK h \in [1 .. Len(t) -> 1 .. Len(s)] :
          /\ \A k \in 1 .. Len(t) : t[k] = s[h[k]] /\ s[h[k]] \in R
          /\ \A j, k \in 1 .. Len(t) : j < k => h[j] < h[k]
    BY OnlyIsPart DEF t
  <2>2. ASSUME NEW j \in 1 .. Len(t), NEW k \in 1 .. Len(t), j # k PROVE t[j] # t[k]
    <3>1. h[j] \in 1 .. Len(s) /\ h[k] \in 1 .. Len(s) /\ h[j] # h[k]
      BY <2>1, <2>2
    <3>2. s[h[j]] # s[h[k]]
      BY <3>1, Zenon DEF NoneTwice
    <3> QED
      BY <2>1, <3>2, Zenon
  <2> QED
    BY <2>2, Zenon DEF t, NoneTwice
<1> QED
  BY <1>1, Zenon DEF Without

\* A queue whose members have rising values of f.
RisingBy(s, f) == \A j, k \in 1 .. Len(s) : j < k => f[s[j]] < f[s[k]]

LEMMA AppendRisingBy ==
  ASSUME NEW T, NEW s \in Seq(T), NEW e \in T, NEW f, NEW g, RisingBy(s, f),
         \A x \in ToSet(s) : g[x] = f[x] /\ f[x] < g[e]
  PROVE  RisingBy(Append(s, e), g)
<1>1. /\ Len(Append(s, e)) = Len(s) + 1
      /\ Len(s) \in Nat
      /\ \A i \in 1 .. Len(s) : Append(s, e)[i] = s[i]
      /\ Append(s, e)[Len(s) + 1] = e
  BY AppendProperties, LenProperties
<1>2. \A i \in 1 .. Len(s) : g[s[i]] = f[s[i]] /\ f[s[i]] < g[e]
  BY LenProperties DEF ToSet
<1> DEFINE t == Append(s, e)
<1> HIDE DEF t
<1>3. ASSUME NEW j \in 1 .. Len(t), NEW k \in 1 .. Len(t), j < k PROVE g[t[j]] < g[t[k]]
  <2>1. j \in 1 .. Len(s) /\ t[j] = s[j]
    BY <1>1, <1>3 DEF t
  <2>2. CASE k \in 1 .. Len(s)
    <3>1. t[k] = s[k] /\ f[s[j]] < f[s[k]]
      BY <1>1, <1>3, <2>1, <2>2, Zenon DEF RisingBy, t
    <3> QED
      BY <1>2, <2>1, <2>2, <3>1, Zenon
  <2>3. CASE k \notin 1 .. Len(s)
    <3>1. t[k] = e
      BY <1>1, <2>3 DEF t
    <3> QED
      BY <1>2, <2>1, <3>1, Zenon
  <2> QED
    BY <2>2, <2>3
<1> QED
  BY <1>3, Zenon DEF t, RisingBy

LEMMA TailRisingBy ==
  ASSUME NEW T, NEW s \in Seq(T), s # <<>>, NEW f, RisingBy(s, f)
  PROVE  RisingBy(Tail(s), f) /\ \A x \in ToSet(Tail(s)) : f[Head(s)] < f[x]
<1>1. /\ Head(s) = s[1] /\ Len(Tail(s)) = Len(s) - 1
      /\ \A i \in 1 .. Len(Tail(s)) : Tail(s)[i] = s[i + 1]
      /\ Len(s) \in Nat \ {0} /\ DOMAIN Tail(s) = 1 .. Len(Tail(s))
  BY HeadTailProperties, LenProperties, TailPlaces
<1> DEFINE t == Tail(s)
           a == Head(s)
<1> HIDE DEF t, a
<1>a. \A i \in 1 .. Len(t) : i + 1 \in 1 .. Len(s) /\ 1 < i + 1 /\ t[i] = s[i + 1]
  BY <1>1 DEF t
<1>b. 1 \in 1 .. Len(s) /\ a = s[1]
  BY <1>1 DEF a
<1>2. RisingBy(t, f)
  <2>1. ASSUME NEW j \in 1 .. Len(t), NEW k \in 1 .. Len(t), j < k PROVE f[t[j]] < f[t[k]]
    <3>1. j + 1 < k + 1
      BY <2>1
    <3> QED
      BY <1>a, <3>1, Zenon DEF RisingBy
  <2> QED
    BY <2>1, Zenon DEF RisingBy
<1>3. \A i \in 1 .. Len(t) : f[a] < f[t[i]]
  BY <1>a, <1>b, Zenon DEF RisingBy
<1>4. \A x \in ToSet(t) : f[a] < f[x]
  <2>1. \A x \in ToSet(t) : \E i \in 1 .. Len(t) : x = t[i]
    BY <1>1 DEF ToSet, t
  <2> QED
    BY <1>3, <2>1, Zenon
<1> QED
  BY <1>2, <1>4 DEF t, a

LEMMA SameRisingBy ==
  ASSUME NEW T, NEW s \in Seq(T), NEW f, NEW g, RisingBy(s, f), \A x \in ToSet(s) : g[x] = f[x]
  PROVE  RisingBy(s, g)
<1>1. \A i \in 1 .. Len(s) : s[i] \in ToSet(s)
  BY LenProperties DEF ToSet
<1> QED
  BY <1>1, Zenon DEF RisingBy

\* One more number is held, or one fewer.
LEMMA OneMore ==
  ASSUME NEW n \in Nat, NEW W, W \subseteq 0 .. n, NEW x \in 0 .. n, x \notin W
  PROVE  Cardinality(W \cup {x}) = Cardinality(W) + 1 /\ Cardinality(W) \in Nat
<1>1. IsFiniteSet(W)
  <2>1. IsFiniteSet(0 .. n)
    BY FS_Interval
  <2> QED
    BY <2>1, FS_Subset, Zenon
<1>2. Cardinality(W \cup {x}) = Cardinality(W) + 1
  BY <1>1, FS_AddElement
<1> QED
  BY <1>1, <1>2, FS_CardinalityType
-----------------------------------------------------------------------------
(* Remainders.                                                             *)

LEMMA Multiples ==
  ASSUME NEW m \in Nat \ {0}, NEW d \in Int, NEW e \in Int, NEW r \in 0 .. m - 1, NEW s \in 0 .. m - 1,
         m * d + r = m * e + s
  PROVE  d = e /\ r = s
<1>1. CASE d = e
  BY <1>1
<1>2. CASE d > e
  <2>1. d - e >= 1 /\ d - e \in Nat
    BY <1>2
  <2>2. m * (d - e) >= m
    BY <2>1
  <2>3. m * (d - e) = s - r
    OBVIOUS
  <2> QED
    BY <2>2, <2>3
<1>3. CASE d < e
  <2>1. e - d >= 1 /\ e - d \in Nat
    BY <1>3
  <2>2. m * (e - d) >= m
    BY <2>1
  <2>3. m * (e - d) = r - s
    OBVIOUS
  <2> QED
    BY <2>2, <2>3
<1> QED
  BY <1>1, <1>2, <1>3

LEMMA DivMod ==
  ASSUME NEW m \in Nat \ {0}, NEW x \in Int
  PROVE  x \div m \in Int /\ x % m \in 0 .. m - 1 /\ x = m * (x \div m) + (x % m)
  OBVIOUS

LEMMA ModIs ==
  ASSUME NEW m \in Nat \ {0}, NEW d \in Int, NEW r \in 0 .. m - 1, NEW x \in Int,
         x = m * d + r
  PROVE  x % m = r
<1>1. x \div m \in Int /\ x % m \in 0 .. m - 1 /\ x = m * (x \div m) + (x % m)
  BY DivMod
<1>2. m * d + r = m * (x \div m) + (x % m)
  BY <1>1
<1> DEFINE e == x \div m
           s == x % m
<1>3. e \in Int /\ s \in 0 .. m - 1 /\ m * d + r = m * e + s
  BY <1>1, <1>2
<1> HIDE DEF e, s
<1>4. r = s
  BY <1>3, Multiples
<1> QED
  BY <1>4 DEF s

LEMMA ModOf ==
  ASSUME NEW m \in Nat \ {0}, NEW d \in Int, NEW r \in 0 .. m - 1
  PROVE  (m * d + r) % m = r
<1> DEFINE x == m * d + r
<1>1. x \in Int /\ x = m * d + r
  OBVIOUS
<1> HIDE DEF x
<1>2. x % m = r
  BY <1>1, ModIs
<1> QED
  BY <1>2 DEF x

\* A multiple of the modulus does not count, nor does reducing before.
LEMMA ProductInt == \A m \in Nat \ {0} : \A d \in Int : m * d \in Int
  OBVIOUS

LEMMA ModAdd ==
  ASSUME NEW m \in Nat \ {0}, NEW x \in Int, NEW e \in Int
  PROVE  (m * e + x) % m = x % m
<1> DEFINE d == x \div m
           r == x % m
<1>1. d \in Int /\ r \in 0 .. m - 1 /\ x = m * d + r
  BY DivMod
<1> HIDE DEF d, r
<1>2. m * e + x = m * (d + e) + r /\ m * e + x \in Int /\ d + e \in Int
  BY <1>1
<1> DEFINE y == m * e + x
<1>3. y \in Int /\ y = m * (d + e) + r
  BY <1>2
<1> HIDE DEF y
<1>4. y % m = r
  BY <1>1, <1>2, <1>3, ModIs
<1> QED
  BY <1>4 DEF y, r

LEMMA ModMod ==
  ASSUME NEW m \in Nat \ {0}, NEW w \in Nat \ {0}, m % w = 0, NEW x \in Int
  PROVE  (x % m) % w = x % w
<1> DEFINE q == m \div w
           d == x \div m
           r == x % m
<1>1. q \in Int /\ m = w * q
  BY DivMod
<1>2. d \in Int /\ r \in 0 .. m - 1 /\ x = m * d + r
  BY DivMod
<1> HIDE DEF q, d, r
<1>3. r \in Int /\ q * d \in Int /\ x = w * (q * d) + r
  BY <1>1, <1>2
<1>4. x % w = r % w
  BY <1>3, ModAdd
<1> QED
  BY <1>4 DEF r

LEMMA ModPlus ==
  ASSUME NEW m \in Nat \ {0}, NEW x \in Int, NEW k \in Int
  PROVE  ((x % m) + k) % m = (x + k) % m
<1> DEFINE d == x \div m
           r == x % m
<1>1. d \in Int /\ r \in 0 .. m - 1 /\ x = m * d + r
  BY DivMod
<1> HIDE DEF d, r
<1>2. r + k \in Int /\ x + k = m * d + (r + k)
  <2> DEFINE y == m * d
  <2>1. y \in Int /\ r \in Int /\ x = y + r
    <3>1. y \in Int
      BY <1>1, ProductInt, Zenon
    <3>2. r \in Int
      BY <1>1
    <3> QED
      BY <1>1, <3>1, <3>2, Zenon
  <2> HIDE DEF y
  <2>2. r + k \in Int /\ x + k = y + (r + k)
    BY <2>1
  <2> QED
    BY <2>2, Zenon DEF y
<1>3. (m * d + (r + k)) % m = (r + k) % m
  <2>1. d \in Int /\ r + k \in Int
    BY <1>1, <1>2, Zenon
  <2> QED
    BY <2>1, ModAdd, Zenon
<1>4. (r + k) % m = (x + k) % m
  BY <1>2, <1>3, Zenon
<1> QED
  BY <1>4, Zenon DEF r

LEMMA ModBelow ==
  ASSUME NEW m \in Nat \ {0}, NEW x \in Nat
  PROVE  x % m <= x
<1> DEFINE d == x \div m
           r == x % m
<1>1. d \in Int /\ r \in 0 .. m - 1 /\ x = m * d + r
  BY DivMod
<1> HIDE DEF d, r
<1>2. CASE d >= 0
  <2>1. d \in Nat
    BY <1>1, <1>2
  <2>2. m * d >= 0
    BY <2>1
  <2> QED
    BY <1>1, <2>2 DEF r
<1>3. CASE d <= -1
  <2>1. -d - 1 \in Nat
    BY <1>1, <1>3
  <2>2. m * (-d - 1) >= 0
    BY <2>1
  <2>3. m * (-d - 1) = -(m * d) - m
    BY <1>1
  <2> QED
    BY <1>1, <2>2, <2>3
<1> QED
  BY <1>1, <1>2, <1>3

\* Numbers closer than the modulus have the same remainder only if equal.
LEMMA ModNear ==
  ASSUME NEW m \in Nat \ {0}, NEW x \in Int, NEW y \in Int, x % m = y % m,
         x - y < m, y - x < m
  PROVE  x = y
<1> DEFINE d == x \div m
           e == y \div m
           r == x % m
<1>1. d \in Int /\ e \in Int /\ r \in 0 .. m - 1 /\ x = m * d + r
  BY DivMod
<1>2. y = m * e + r
  BY DivMod
<1> HIDE DEF d, e, r
<1>3. x - y = m * (d - e)
  BY <1>1, <1>2
<1>4. CASE d - e >= 1
  <2>1. m * (d - e) >= m
    BY <1>1, <1>4
  <2> QED
    BY <1>3, <2>1
<1>5. CASE e - d >= 1
  <2>1. m * (e - d) >= m
    BY <1>1, <1>5
  <2>2. m * (e - d) = y - x
    BY <1>1, <1>3
  <2> QED
    BY <2>1, <2>2
<1>6. CASE d = e
  BY <1>1, <1>2, <1>6
<1> QED
  BY <1>1, <1>4, <1>5, <1>6
=============================================================================
