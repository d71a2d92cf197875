------------------------------- MODULE SeqKept ------------------------------
(***************************************************************************)
(* What is left of a queue when members are taken out of its middle        *)
(* (list_del, __skb_unlink).  SelectSeq says the same, but by a recursion  *)
(* that the provers cannot unfold.                                         *)
(***************************************************************************)
EXTENDS Naturals, Sequences, FiniteSets

\* The members of s that are in S, in their order: the k-th is the one at the
\* place up to which there are k of them.
Only(s, S) ==
  LET I     == {i \in 1 .. Len(s) : s[i] \in S}
      Nth(k) == CHOOSE i \in I : Cardinality({j \in I : j <= i}) = k
  IN  [k \in 1 .. Cardinality(I) |-> s[Nth(k)]]

\* The members of s that are not in S.
Without(s, S) == Only(s, {s[i] : i \in 1 .. Len(s)} \ S)
=============================================================================
