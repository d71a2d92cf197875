------------------------------ MODULE BaBitmap ------------------------------
(***************************************************************************)
(* How a BlockAck bitmap is read: ssv6006_ba_map_walker of                 *)
(* src/smac/hal/ssv6006c/ssv6006_common.c with the two index functions of  *)
(* src/smac/ampdu.c.  The walker follows the sequence numbers of one sent  *)
(* A-MPDU with a pair (word, bit) into the 2 x 32-bit map, moved from one  *)
(* frame to the next instead of computed afresh.                           *)
(*                                                                         *)
(* The behaviour of this module is one walk, one loop iteration a step;    *)
(* every input is an initial state.                                        *)
(***************************************************************************)
EXTENDS Integers, Sequences, FiniteSets

CONSTANTS
  MaxSsn,   \* SSV_AMPDU_MAX_SSN, 4096 in the code
  W,        \* SSV_AMPDU_BA_WINDOW_SIZE, 64 in the code
  WordLen,  \* bits in a word of the map, 32 in the code
  MaxLen    \* MAX_AGGR_NUM

ASSUME BitmapAssumption ==
  /\ WordLen \in Nat \ {0} /\ W = 2 * WordLen
  /\ MaxSsn \in Nat /\ MaxSsn > 2 * W
  /\ MaxLen \in Nat \ {0}

Ssn == 0 .. MaxSsn - 1
\* word_idx and bit_idx start from (u32) -1, out of the map
Unset == [found |-> FALSE, word |-> 2 * W, bit |-> 2 * W]

VARIABLES
  start,   \* start_ssn, BA_ssn of the BlockAck
  ssns,    \* ampdu_ssn->ssn[0 .. mpdu_num - 1]
  bits,    \* the set bits of sn_bit_map, as offsets from start
  i,       \* frames walked
  cur,     \* [found, word, bit]
  first,   \* first_found
  acks     \* for each frame walked, whether it counts as acknowledged

vars == <<start, ssns, bits, i, cur, first, acks>>
input == <<start, ssns, bits>>
-----------------------------------------------------------------------------
(* ssv6xxx_ssn_to_bit_idx; c is what the two indices were before.          *)

\* The functions return false and leave the indices as they are.
NotFound(c) == [found |-> FALSE, word |-> c.word, bit |-> c.bit]

Place(n, p) ==
  IF n >= WordLen THEN [found |-> TRUE, word |-> p + 1, bit |-> n - WordLen]
  ELSE [found |-> TRUE, word |-> p, bit |-> n]

\* Mutant: the bound of the wrapped case is off by one.
SsnToBitIdxWrap(s, ssn, c) ==
  IF ssn >= s /\ ssn - s >= W THEN NotFound(c)
  ELSE IF ssn < s /\ s - ssn < MaxSsn - W
  THEN [found |-> FALSE, word |-> 0, bit |-> 0]
  ELSE Place(IF ssn >= s THEN ssn - s ELSE MaxSsn - (s - ssn), 0)

SsnToBitIdx(s, ssn, c) ==
  IF ssn >= s /\ ssn - s >= W THEN NotFound(c)
  ELSE IF ssn < s /\ s - ssn <= MaxSsn - W
  THEN [found |-> FALSE, word |-> 0, bit |-> 0]
  ELSE Place(IF ssn >= s THEN ssn - s ELSE MaxSsn - (s - ssn), 0)

(* ssv6xxx_inc_bit_idx: from the place c of frame a to that of frame b.    *)

\* Mutant: the distance across the wrap is not corrected.
IncBitIdxNoWrap(a, b, c) == Place(c.bit + (IF a > b THEN a - b ELSE b - a), c.word)

IncBitIdx(a, b, c) ==
  IF a > b /\ a - b < MaxSsn - W
  THEN NotFound(c)          \* "Irrational SN distance"
  ELSE Place(c.bit + (IF a > b THEN MaxSsn - (a - b) ELSE b - a), c.word)
-----------------------------------------------------------------------------
InMap(c) == c.word < 2 /\ c.bit < WordLen
\* "idx error 2"
Checked(c) == IF c.found /\ ~InMap(c) THEN NotFound(c) ELSE c

\* A sequence number past the wrap, and the distance from one to a later one.
Wrap(x) == IF x < MaxSsn THEN x ELSE x - MaxSsn
Gap(a, b) == IF a <= b THEN b - a ELSE MaxSsn - a + b

\* The sequence numbers of one A-MPDU: in order, within one window.
Ampdu(n) ==
  {[k \in 1 .. n |-> Wrap(a + d[k])] :
     a \in Ssn,
     d \in {d \in [1 .. n -> 0 .. W - 1] : \A j, k \in 1 .. n : j < k => d[j] < d[k]}}
Ampdus == UNION {Ampdu(n) : n \in 1 .. MaxLen}

Init ==
  /\ start \in Ssn /\ ssns \in Ampdus /\ bits \in SUBSET (0 .. W - 1)
  /\ i = 0 /\ acks = <<>>
  /\ cur = SsnToBitIdx(start, ssns[1], Unset)
  /\ first = cur.found

BitSet == cur.found /\ cur.word * WordLen + cur.bit \in bits

Step ==
  /\ i < Len(ssns)
  /\ i' = i + 1
  /\ acks' = Append(acks, BitSet)
  /\ IF i + 1 = Len(ssns) THEN UNCHANGED <<cur, first>>
     ELSE LET a == ssns[i + 1]
              b == ssns[i + 2]
              c == IF first THEN Checked(IncBitIdx(a, b, cur)) ELSE SsnToBitIdx(start, b, cur)
          IN  /\ cur' = c
              /\ first' = (first \/ c.found)
  /\ UNCHANGED input

Next == Step
Spec == Init /\ [][Next]_vars
-----------------------------------------------------------------------------
\* What the bitmap says of a frame: it is acknowledged when its distance
\* from the starting sequence number is inside the map and its bit is set.
IsAcked(ssn) == Gap(start, ssn) < W /\ Gap(start, ssn) \in bits

\* The incremental indices answer as the definition does, for every frame,
\* across the wrap of the sequence numbers and at both ends of the map.
WalkIsExact == \A k \in 1 .. Len(acks) : acks[k] <=> IsAcked(ssns[k])

\* sn_bit_map is never read out of its two words.
IndexInMap == cur.found => InMap(cur) /\ cur.word >= 0 /\ cur.bit >= 0
=============================================================================
