--------------------------- MODULE SequenceLemmas ---------------------------
(***************************************************************************)
(* Facts about sequences that the proofs share: a stream of bytes cut in   *)
(* two, the sequence of the numbers 1..n, which stands for the bytes that  *)
(* a peer sends, and the least and the greatest of a set of positions.     *)
(***************************************************************************)
EXTENDS Naturals, Sequences, SequenceTheorems, WellFoundedInduction, TLAPS

\* A beginning and the rest make up the stream.
LEMMA CutInTwo ==
    ASSUME NEW S, NEW s \in Seq(S), NEW n \in 0 .. Len(s)
    PROVE  /\ SubSeq(s, 1, n) \in Seq(S)
           /\ SubSeq(s, n + 1, Len(s)) \in Seq(S)
           /\ SubSeq(s, 1, n) \o SubSeq(s, n + 1, Len(s)) = s
<1>1. /\ 1 \in 1 .. Len(s) + 1
      /\ n \in 1 - 1 .. Len(s)
      /\ Len(s) \in n .. Len(s)
  OBVIOUS
<1>2. SubSeq(s, 1, n) \o SubSeq(s, n + 1, Len(s)) = SubSeq(s, 1, Len(s))
  BY <1>1, ConcatAdjacentSubSeq, Zenon
<1>3. SubSeq(s, 1, n) \o SubSeq(s, n + 1, Len(s)) = s
  BY <1>2, SubSeqFull, Zenon
<1>4. SubSeq(s, 1, n) \in Seq(S)
  OBVIOUS
<1>5. SubSeq(s, n + 1, Len(s)) \in Seq(S)
  OBVIOUS
<1> QED BY <1>3, <1>4, <1>5

\* An empty piece may be left out.
LEMMA NoPiece ==
    ASSUME NEW S, NEW a \in Seq(S)
    PROVE  a \o <<>> = a /\ <<>> \o a = a
BY ConcatEmptySeq, SMT

\* What two pieces of known lengths hold together.
LEMMA TwoPieces ==
    ASSUME NEW S, NEW s \in Seq(S), NEW t \in Seq(S), NEW m, NEW n, m = Len(s), n = Len(t)
    PROVE  /\ m \in Nat /\ n \in Nat
           /\ s \o t \in Seq(S) /\ Len(s \o t) = m + n
           /\ \A i \in 1 .. m : (s \o t)[i] = s[i]
           /\ \A i \in 1 .. n : (s \o t)[m + i] = t[i]
<1>1. Len(s) \in Nat /\ Len(t) \in Nat
  OBVIOUS
<1>2. /\ s \o t \in Seq(S) /\ Len(s \o t) = Len(s) + Len(t)
      /\ \A i \in 1 .. Len(s) + Len(t) :
            (s \o t)[i] = IF i <= Len(s) THEN s[i] ELSE t[i - Len(s)]
  BY ConcatProperties
<1>3. \A i \in 1 .. Len(s) : (s \o t)[i] = s[i]
  BY <1>1, <1>2
<1>4. \A i \in 1 .. Len(t) : (s \o t)[Len(s) + i] = t[i]
  BY <1>1, <1>2
<1> QED BY <1>1, <1>2, <1>3, <1>4

\* The bytes 1 to n, followed by the next one.
LEMMA CountOn ==
    ASSUME NEW n \in Nat
    PROVE  /\ [i \in 1 .. n |-> i] \in Seq(Nat)
           /\ [i \in 1 .. n |-> i] \o <<n + 1>> = [i \in 1 .. n + 1 |-> i]
<1> DEFINE N(k) == [i \in 1 .. k |-> i]
<1>1. /\ N(n) \in Seq(Nat) /\ Len(N(n)) = n
      /\ N(n + 1) \in Seq(Nat) /\ Len(N(n + 1)) = n + 1
  OBVIOUS
<1>2. N(n) \o <<n + 1>> \in Seq(Nat) /\ Len(N(n) \o <<n + 1>>) = n + 1
  BY <1>1
<1>3. \A i \in 1 .. n + 1 : (N(n) \o <<n + 1>>)[i] = N(n + 1)[i]
  BY <1>1
<1>4. N(n) \o <<n + 1>> = N(n + 1)
  BY <1>1, <1>2, <1>3, SeqEqual
<1> QED BY <1>1, <1>4

\* The bytes 1 to n, followed by the next m.
LEMMA CountOnBy ==
    ASSUME NEW n \in Nat, NEW m \in Nat
    PROVE  [i \in 1 .. n |-> i] \o [i \in 1 .. m |-> n + i] = [i \in 1 .. n + m |-> i]
<1> DEFINE N(k) == [i \in 1 .. k |-> i]
           More == [i \in 1 .. m |-> n + i]
<1>1. /\ N(n) \in Seq(Nat) /\ Len(N(n)) = n
      /\ More \in Seq(Nat) /\ Len(More) = m
      /\ N(n + m) \in Seq(Nat) /\ Len(N(n + m)) = n + m
  OBVIOUS
<1>2. N(n) \o More \in Seq(Nat) /\ Len(N(n) \o More) = n + m
  BY <1>1
<1>3. \A i \in 1 .. n + m : (N(n) \o More)[i] = N(n + m)[i]
  BY <1>1
<1> QED BY <1>1, <1>2, <1>3, SeqEqual

\* Positions, if there are any, have a least one ...
LEMMA LeastPosition ==
    ASSUME NEW I, I \subseteq Nat, I # {}
    PROVE  \E i \in I : \A j \in I : i <= j
<1>1. PICK i \in I : \A j \in I : ~ (<<j, i>> \in OpToRel(<, Nat))
  BY NatLessThanWellFounded, WFMin, Zenon
<1>2. \A j \in I : ~ (j < i)
  BY <1>1 DEF OpToRel
<1> QED BY <1>2

\* ... and, if they are those of a sequence, a greatest one.
LEMMA GreatestPosition ==
    ASSUME NEW n \in Nat, NEW I, I \subseteq 1 .. n, I # {}
    PROVE  \E i \in I : \A j \in I : i >= j
<1> DEFINE J == {k \in 0 .. n : n - k \in I}
<1>0. J \subseteq Nat
  OBVIOUS
<1>1. J # {}
  <2>1. PICK i \in I : TRUE
    OBVIOUS
  <2>2. n - i \in 0 .. n /\ n - (n - i) = i
    OBVIOUS
  <2>3. n - i \in J
    BY <2>2
  <2> QED BY <2>3
<1>2. PICK k \in J : \A j \in J : k <= j
  BY <1>0, <1>1, LeastPosition
<1>3. ASSUME NEW j \in I PROVE n - k >= j
  <2>1. j \in 0 .. n /\ n - j \in 0 .. n /\ n - (n - j) = j
    OBVIOUS
  <2>2. k <= n - j
    BY <1>2, <2>1
  <2> QED BY <2>1, <2>2
<1> QED BY <1>2, <1>3
=============================================================================
