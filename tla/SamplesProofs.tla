---------------------------- MODULE SamplesProofs ----------------------------
(***************************************************************************)
(* Lemmas about the resampler of Samples, for every delay and every ratio,  *)
(* and about the arithmetic and the sequences that it rests on.             *)
(***************************************************************************)
EXTENDS Samples, SequencesExt, SequenceTheorems, WellFoundedInduction, TLAPS

(* Induction over the natural numbers, for a set instead of a predicate. *)
LEMMA Induction ==
  ASSUME NEW S \in SUBSET Nat, 0 \in S, \A n \in S : n + 1 \in S
  PROVE  S = Nat
<1> SUFFICES ASSUME Nat \ S # {} PROVE FALSE
  OBVIOUS
<1> DEFINE R == OpToRel(<, Nat)
           T == Nat \ S
<1>1. IsWellFoundedOn(R, Nat)
  BY NatLessThanWellFounded
<1>2. \A m, n \in Nat : m < n => <<m, n>> \in R
  BY DEF OpToRel
<1> HIDE DEF R
<1>3. PICK n \in T : \A m \in T : <<m, n>> \notin R
  BY <1>1, WFMin
<1>4. n # 0 /\ n - 1 \in Nat
  BY <1>3
<1>5. n - 1 \notin T
  <2>1. n - 1 < n /\ n \in Nat
    BY <1>4
  <2>2. <<n - 1, n>> \in R
    BY <1>2, <1>4, <2>1
  <2> QED BY <1>3, <2>2
<1> QED BY <1>4, <1>5
(* Euclidean division, as the provers need it. *)
LEMMA Division ==
  ASSUME NEW x \in Nat, NEW d \in Nat \ {0}
  PROVE  /\ x \div d \in Nat
         /\ x % d \in 0 .. d - 1
         /\ (x \div d) * d <= x
         /\ x < (x \div d) * d + d
         /\ x - (x \div d) * d = x % d
  OBVIOUS

(* A quotient is bounded by the bounds of the dividend. *)
LEMMA QuotientBounds ==
  ASSUME NEW x \in Nat, NEW d \in Nat \ {0}, NEW n \in Nat,
         d <= x, x < (n + 1) * d
  PROVE  x \div d \in 1 .. n
<1> DEFINE q == x \div d
<1>1. q \in Nat /\ q * d <= x /\ x < q * d + d
  BY Division
<1>2. q # 0
  BY <1>1
<1>3. q < n + 1
  <2>1. SUFFICES ASSUME n + 1 <= q PROVE FALSE
    BY <1>1
  <2>2. (n + 1) * d <= q * d
    BY <1>1, <2>1
  <2> QED BY <1>1, <2>2
<1> QED BY <1>1, <1>2, <1>3

(* The resampler of any ratio up / down, of which those of a sender and of   *)
(* a receiver are instances.                                                *)
OutputAt(up, down, phase, n) == (phase + n * up) \div down

PhaseAt(up, down, phase, n) == (phase + n * up) % down

PositionAt(up, down, phase, j) == (j * down - phase + up - 1) \div up

(* Each output sample of a resampler is made from one of its input samples, *)
(* whatever the ratio: msresamp_crcf_execute() reads no sample outside the  *)
(* block it is given.                                                       *)
LEMMA PositionAtInBlock ==
  ASSUME NEW up \in Nat \ {0}, NEW down \in Nat \ {0},
         NEW ph \in 0 .. down - 1, NEW n \in Nat, NEW j \in 1 .. OutputAt(up, down, ph, n)
  PROVE  PositionAt(up, down, ph, j) \in 1 .. n
<1> DEFINE total == ph + n * up
           x == j * down - ph + up - 1
<1>1. total \in Nat /\ n * up \in Nat
  OBVIOUS
<1>2. j * down <= total
  <2>1. (total \div down) \in Nat /\ (total \div down) * down <= total
    BY <1>1, Division
  <2>2. j \in Nat /\ j <= total \div down
    BY <2>1 DEF OutputAt
  <2>3. j * down <= (total \div down) * down
    BY <2>1, <2>2
  <2> QED BY <2>1, <2>2, <2>3, <1>1
<1>3. j \in Nat /\ 1 <= j
  BY <1>1, Division DEF OutputAt
<1>4. down <= j * down /\ j * down \in Nat
  BY <1>3
<1>5. x \in Nat /\ up <= x
  BY <1>4
<1>6. (n + 1) * up = n * up + up
  OBVIOUS
<1>7. x < (n + 1) * up
  BY <1>1, <1>2, <1>4, <1>6
<1>8. x \div up \in 1 .. n
  BY <1>5, <1>7, QuotientBounds
<1> QED BY <1>8 DEF PositionAt

(* The same, for the ratio of the module.                                   *)
LEMMA PositionInBlock ==
  ASSUME NEW ph \in 0 .. Decimation - 1, NEW n \in Nat,
         NEW j \in 1 .. OutputLen(ph, n)
  PROVE  Position(ph, j) \in 1 .. n
<1>1. j \in 1 .. OutputAt(Interpolation, Decimation, ph, n)
  BY DEF OutputLen, OutputAt
<1>2. PositionAt(Interpolation, Decimation, ph, j) \in 1 .. n
  BY <1>1, SamplesAssumption, PositionAtInBlock
<1> QED BY <1>2 DEF Position, PositionAt

LEMMA ResampleType ==
  ASSUME NEW S, NEW ph \in 0 .. Decimation - 1, NEW s \in Seq(S)
  PROVE  /\ Resample(ph, s) \in Seq(S)
         /\ NextPhase(ph, Len(s)) \in 0 .. Decimation - 1
<1> USE SamplesAssumption
<1>1. Len(s) \in Nat /\ ph + Len(s) * Interpolation \in Nat
  OBVIOUS
<1>2. OutputLen(ph, Len(s)) \in Nat /\ NextPhase(ph, Len(s)) \in 0 .. Decimation - 1
  BY <1>1, Division DEF OutputLen, NextPhase
<1>3. \A j \in 1 .. OutputLen(ph, Len(s)) : s[Position(ph, j)] \in S
  BY <1>1, PositionInBlock, ElementOfSeq
<1> QED BY <1>2, <1>3 DEF Resample

(* A quotient grows with the dividend. *)
LEMMA QuotientMonotone ==
  ASSUME NEW x \in Nat, NEW y \in Nat, NEW d \in Nat \ {0}, x <= y
  PROVE  x \div d <= y \div d
<1> DEFINE p == x \div d
           q == y \div d
<1>1. p \in Nat /\ p * d <= x /\ q \in Nat /\ y < q * d + d
  BY Division
<1> SUFFICES ASSUME q + 1 <= p PROVE FALSE
  BY <1>1
<1> HIDE DEF p, q
<1>2. (q + 1) * d <= p * d
  BY <1>1
<1>3. (q + 1) * d = q * d + d
  BY <1>1
<1> QED BY <1>1, <1>2, <1>3

(* A number, from its quotient and its remainder. *)
LEMMA Dividend ==
  ASSUME NEW x \in Nat, NEW d \in Nat \ {0}
  PROVE  \E q \in Nat, r \in 0 .. d - 1 : q = x \div d /\ r = x % d /\ x = q * d + r
<1>1. \E q \in Nat, r \in 0 .. d - 1 : q = x \div d /\ r = x % d
  OBVIOUS
<1>2. PICK q \in Nat, r \in 0 .. d - 1 : q = x \div d /\ r = x % d /\ x - q * d = r
  BY <1>1, Division
<1>3. x = q * d + r
  BY <1>2
<1> QED BY <1>2, <1>3

(* Division has one quotient and one remainder. *)
LEMMA DivisionUnique ==
  ASSUME NEW d \in Nat \ {0}, NEW q \in Nat, NEW r \in 0 .. d - 1
  PROVE  (q * d + r) \div d = q /\ (q * d + r) % d = r
<1> DEFINE x == q * d + r
           p == x \div d
<1>1. x \in Nat /\ q * d \in Nat
  OBVIOUS
<1>2. p \in Nat /\ p * d <= x /\ x < p * d + d /\ x - p * d = x % d
  BY <1>1, Division
<1> HIDE DEF p
<1>3. (q + 1) * d = q * d + d /\ (p + 1) * d = p * d + d
  BY <1>2
<1>4. ~(q + 1 <= p)
  <2> SUFFICES ASSUME q + 1 <= p PROVE FALSE
    OBVIOUS
  <2>1. (q + 1) * d <= p * d
    BY <1>2
  <2> QED BY <1>1, <1>2, <1>3, <2>1
<1>5. ~(p + 1 <= q)
  <2> SUFFICES ASSUME p + 1 <= q PROVE FALSE
    OBVIOUS
  <2>1. (p + 1) * d <= q * d
    BY <1>2
  <2> QED BY <1>1, <1>2, <1>3, <2>1
<1>6. p = q
  BY <1>2, <1>4, <1>5
<1> QED BY <1>1, <1>2, <1>6 DEF p

LEMMA DivisionOfSum ==
  ASSUME NEW d \in Nat \ {0}, NEW n \in Nat, NEW x \in Nat
  PROVE  (n * d + x) \div d = n + x \div d /\ (n * d + x) % d = x % d
<1>1. PICK q \in Nat, r \in 0 .. d - 1 : q = x \div d /\ r = x % d /\ x = q * d + r
  BY Dividend
<1>2. n * d + x = (n + q) * d + r
  <2>1. (n + q) * d = n * d + q * d
    BY <1>1
  <2> QED BY <1>1, <2>1
<1>3. n + q \in Nat
  BY <1>1
<1>4. ((n + q) * d + r) \div d = n + q /\ ((n + q) * d + r) % d = r
  BY <1>1, <1>3, DivisionUnique
<1> QED BY <1>1, <1>2, <1>4

(* Of n samples after len others. *)
Continues(up, down, start, len, n) ==
  LET ph == PhaseAt(up, down, start, len)
      out == OutputAt(up, down, start, len)
  IN  /\ out \in Nat /\ ph \in 0 .. down - 1
      /\ OutputAt(up, down, start, len + n) = out + OutputAt(up, down, ph, n)
      /\ PhaseAt(up, down, start, len + n) = PhaseAt(up, down, ph, n)
      /\ \A j \in 1 .. OutputAt(up, down, ph, n) :
           PositionAt(up, down, start, out + j) = len + PositionAt(up, down, ph, j)

(* Resampling n samples after len others gives what resampling them all at  *)
(* once gives after the first outputs: a stream can be cut anywhere.        *)
LEMMA RatioContinues ==
  ASSUME NEW up \in Nat \ {0}, NEW down \in Nat \ {0},
         NEW start \in 0 .. down - 1, NEW len \in Nat, NEW n \in Nat
  PROVE  Continues(up, down, start, len, n)
<1> DEFINE ph == PhaseAt(up, down, start, len)
           out == OutputAt(up, down, start, len)
<1>1. len * up \in Nat /\ n * up \in Nat
  OBVIOUS
<1> HIDE DEF ph, out
<1>2. /\ out \in Nat /\ ph \in 0 .. down - 1
      /\ start + len * up = out * down + ph
  <2> DEFINE x == start + len * up
  <2>1. out = x \div down /\ ph = x % down
    BY <1>1 DEF OutputAt, PhaseAt, out, ph
  <2> HIDE DEF x
  <2>2. x \in Nat
    BY <1>1 DEF x
  <2>3. PICK q \in Nat, r \in 0 .. down - 1 :
          q = x \div down /\ r = x % down /\ x = q * down + r
    BY <2>2, Dividend
  <2> QED BY <2>1, <2>3 DEF x
<1>3. start + (len + n) * up = out * down + (ph + n * up)
  <2>1. (len + n) * up = len * up + n * up
    OBVIOUS
  <2> QED BY <1>1, <1>2, <2>1
<1>4. /\ OutputAt(up, down, start, len + n) = out + OutputAt(up, down, ph, n)
      /\ PhaseAt(up, down, start, len + n) = PhaseAt(up, down, ph, n)
  <2>1. ph + n * up \in Nat
    BY <1>1, <1>2
  <2>2. /\ (out * down + (ph + n * up)) \div down
             = out + (ph + n * up) \div down
        /\ (out * down + (ph + n * up)) % down
             = (ph + n * up) % down
    BY <1>2, <2>1, DivisionOfSum
  <2> QED BY <1>3, <2>2 DEF OutputAt, PhaseAt
<1>5. ASSUME NEW j \in 1 .. OutputAt(up, down, ph, n)
      PROVE  PositionAt(up, down, start, out + j) = len + PositionAt(up, down, ph, j)
  <2>1. j \in Nat /\ 1 <= j
    BY <1>1, <1>2, Division DEF OutputAt
  <2>2. down <= j * down /\ j * down \in Nat
    BY <2>1
  <2> DEFINE x == j * down - ph + up - 1
  <2>3. x \in Nat
    BY <1>2, <2>2
  <2>4. (out + j) * down = out * down + j * down
    BY <1>2, <2>1
  <2>5. (out + j) * down - start + up - 1 = len * up + x
    BY <1>1, <1>2, <2>2, <2>4
  <2>6. (len * up + x) \div up = len + x \div up
    BY <2>3, DivisionOfSum
  <2> HIDE DEF x
  <2>7. ((out + j) * down - start + up - 1) \div up = len + x \div up
    BY <2>5, <2>6
  <2> QED BY <2>7 DEF PositionAt, x
<1> QED BY <1>2, <1>4, <1>5 DEF ph, out, Continues

(* The same, for the ratio of the module.                                   *)
LEMMA BlockContinues ==
  ASSUME NEW start \in 0 .. Decimation - 1, NEW len \in Nat, NEW n \in Nat
  PROVE  LET ph == NextPhase(start, len)
             out == OutputLen(start, len)
         IN  /\ out \in Nat /\ ph \in 0 .. Decimation - 1
             /\ OutputLen(start, len + n) = out + OutputLen(ph, n)
             /\ NextPhase(start, len + n) = NextPhase(ph, n)
             /\ \A j \in 1 .. OutputLen(ph, n) :
                  Position(start, out + j) = len + Position(ph, j)
<1>1. Continues(Interpolation, Decimation, start, len, n)
  BY SamplesAssumption, RatioContinues
<1> QED BY <1>1, Zenon
        DEF Continues, OutputLen, NextPhase, Position, OutputAt, PhaseAt, PositionAt

(* From the start of the stream. *)
LEMMA ResampleContinues ==
  ASSUME NEW len \in Nat, NEW n \in Nat
  PROVE  LET ph == NextPhase(0, len)
             out == OutputLen(0, len)
         IN  /\ OutputLen(0, len + n) = out + OutputLen(ph, n)
             /\ NextPhase(0, len + n) = NextPhase(ph, n)
             /\ \A j \in 1 .. OutputLen(ph, n) :
                  Position(0, out + j) = len + Position(ph, j)
<1>1. 0 \in 0 .. Decimation - 1
  BY SamplesAssumption
<1> QED BY <1>1, BlockContinues

LEMMA PositionMonotone ==
  ASSUME NEW i \in Nat, NEW j \in Nat, i <= j
  PROVE  Position(0, i) <= Position(0, j)
<1> USE SamplesAssumption
<1>1. i * Decimation \in Nat /\ j * Decimation \in Nat /\ i * Decimation <= j * Decimation
  OBVIOUS
<1> DEFINE x == i * Decimation - 0 + Interpolation - 1
           y == j * Decimation - 0 + Interpolation - 1
<1>2. x \in Nat /\ y \in Nat /\ x <= y
  BY <1>1
<1> HIDE DEF x, y
<1>3. x \div Interpolation <= y \div Interpolation
  BY <1>2, QuotientMonotone
<1> QED BY <1>3 DEF Position, x, y

LEMMA OutputMonotone ==
  ASSUME NEW m \in Nat, NEW n \in Nat, m <= n
  PROVE  /\ OutputLen(0, m) \in Nat /\ OutputLen(0, n) \in Nat
         /\ OutputLen(0, m) <= OutputLen(0, n)
<1> USE SamplesAssumption
<1>1. /\ m * Interpolation \in Nat /\ n * Interpolation \in Nat
      /\ m * Interpolation <= n * Interpolation
  OBVIOUS
<1> DEFINE x == 0 + m * Interpolation
           y == 0 + n * Interpolation
<1>2. x \in Nat /\ y \in Nat /\ x <= y
  BY <1>1
<1> HIDE DEF x, y
<1>3. x \div Decimation <= y \div Decimation
  BY <1>2, QuotientMonotone
<1>4. x \div Decimation \in Nat /\ y \div Decimation \in Nat
  BY <1>2, Division
<1> QED BY <1>3, <1>4 DEF OutputLen, x, y

(* The filter holds Delay samples at any time. *)
LEMMA FilterType ==
  ASSUME NEW S, NEW l \in Seq(S), Len(l) = Delay, NEW in \in Seq(S)
  PROVE  /\ Emerging(l, in) \in Seq(S) /\ Len(Emerging(l, in)) = Len(in)
         /\ Staying(l, in) \in Seq(S) /\ Len(Staying(l, in)) = Delay
<1> USE SamplesAssumption
<1> DEFINE all == l \o in
<1>1. all \in Seq(S) /\ Len(all) = Delay + Len(in) /\ Len(in) \in Nat
  <2>1. l \o in \in Seq(S) /\ Len(l \o in) = Len(l) + Len(in)
    BY ConcatProperties
  <2> QED BY <2>1
<1>2. \A i \in 1 .. Delay + Len(in) : all[i] \in S
  BY <1>1, ElementOfSeq
<1>3. /\ SubSeq(all, 1, Len(in)) \in Seq(S)
      /\ Len(SubSeq(all, 1, Len(in))) = Len(in)
  BY <1>1, <1>2, SubSeqProperties
<1>4. /\ SubSeq(all, Len(in) + 1, Len(in) + Delay) \in Seq(S)
      /\ Len(SubSeq(all, Len(in) + 1, Len(in) + Delay)) = Delay
  BY <1>1, <1>2, SubSeqProperties
<1> QED BY <1>3, <1>4 DEF Emerging, Staying
-----------------------------------------------------------------------------
(* Cutting a sequence in two. *)
LEMMA Cut ==
  ASSUME NEW S, NEW s \in Seq(S), NEW r \in 0 .. Len(s)
  PROVE  /\ SubSeq(s, 1, r) \in Seq(S) /\ Len(SubSeq(s, 1, r)) = r
         /\ SubSeq(s, r + 1, Len(s)) \in Seq(S)
         /\ SubSeq(s, 1, r) \o SubSeq(s, r + 1, Len(s)) = s
<1>1. \A i \in 1 .. Len(s) : s[i] \in S
  BY ElementOfSeq
<1>2. SubSeq(s, 1, r) \in Seq(S) /\ Len(SubSeq(s, 1, r)) = r
  BY <1>1, SubSeqProperties
<1>3. SubSeq(s, r + 1, Len(s)) \in Seq(S)
  BY <1>1, SubSeqProperties
<1>4. SubSeq(s, 1, r) \o SubSeq(s, r + 1, Len(s)) = SubSeq(s, 1, Len(s))
  <2>1. /\ Len(s) \in Nat /\ 1 \in 1 .. Len(s) + 1
        /\ r \in 1 - 1 .. Len(s) /\ Len(s) \in r .. Len(s)
    OBVIOUS
  <2> QED BY <2>1, ConcatAdjacentSubSeq
<1> QED BY <1>2, <1>3, <1>4, SubSeqFull

LEMMA PrefixOfConcat ==
  ASSUME NEW S, NEW s \in Seq(S), NEW t \in Seq(S)
  PROVE  IsPrefix(s, s \o t)
<1>1. Len(s) \in Nat /\ Len(s \o t) = Len(s) + Len(t) /\ Len(t) \in Nat
  BY ConcatProperties
<1>2. SubSeq(s \o t, 1, Len(s)) = SubSeq(s, 1, Len(s))
  <2>1. CASE Len(s) = 0
    BY <2>1, SubSeqEmpty
  <2>2. CASE Len(s) # 0
    BY <2>2, <1>1, SubSeqOfConcat1
  <2> QED BY <2>1, <2>2
<1> QED BY <1>1, <1>2 DEF IsPrefix

LEMMA PrefixExtends ==
  ASSUME NEW S, NEW s \in Seq(S), NEW t \in Seq(S), NEW u \in Seq(S),
         IsPrefix(s, t)
  PROVE  IsPrefix(s, t \o u)
<1>1. /\ Len(s) \in Nat /\ Len(t) \in Nat /\ Len(u) \in Nat
      /\ Len(t \o u) = Len(t) + Len(u)
      /\ Len(s) <= Len(t) /\ SubSeq(s, 1, Len(s)) = SubSeq(t, 1, Len(s))
  BY ConcatProperties DEF IsPrefix
<1>2. SubSeq(t \o u, 1, Len(s)) = SubSeq(t, 1, Len(s))
  <2>1. CASE Len(s) = 0
    BY <2>1, SubSeqEmpty
  <2>2. CASE Len(s) # 0
    BY <2>2, <1>1, SubSeqOfConcat1
  <2> QED BY <2>1, <2>2
<1> QED BY <1>1, <1>2 DEF IsPrefix

(* The sequences one after the other, step by step. *)
Concatenates(f, seqs) ==
  /\ f[1] = seqs[1]
  /\ \A i \in 2 .. Len(seqs) : f[i] = f[i - 1] \o seqs[i]

LEMMA FlattenSteps ==
  ASSUME NEW seqs, Len(seqs) \in Nat \ {0}
  PROVE  \E f : Concatenates(f, seqs) /\ FlattenSeq(seqs) = f[Len(seqs)]
<1> DEFINE N == Len(seqs)
<1>0. N \in Nat \ {0}
  OBVIOUS
<1> DEFINE Flat(f) == [i \in 1 .. N |-> IF i = 1 THEN seqs[i] ELSE f[i - 1] \o seqs[i]]
           flatten == CHOOSE f : f = Flat(f)
           Solves(f, n) == \A i \in 1 .. n : f[i] = IF i = 1 THEN seqs[i] ELSE f[i - 1] \o seqs[i]
           Solvable == {n \in Nat : \E f : Solves(f, n)}
<1>1. FlattenSeq(seqs) = flatten[N]
  BY DEF FlattenSeq
<1> HIDE DEF N
<1>2. Solvable = Nat
  <2>1. 0 \in Solvable
    OBVIOUS
  <2>2. ASSUME NEW n \in Solvable PROVE n + 1 \in Solvable
    <3>1. PICK f : Solves(f, n)
      OBVIOUS
    <3> DEFINE g == [i \in 1 .. n + 1 |->
                       IF i <= n THEN f[i] ELSE IF i = 1 THEN seqs[i] ELSE f[i - 1] \o seqs[i]]
    <3>2. ASSUME NEW i \in 1 .. n + 1
          PROVE  g[i] = IF i = 1 THEN seqs[i] ELSE g[i - 1] \o seqs[i]
      <4>1. CASE i = 1
        BY <3>1, <4>1
      <4>2. CASE i # 1
        <5>1. i - 1 \in 1 .. n + 1 /\ i - 1 <= n
          BY <4>2
        <5>2. g[i - 1] = f[i - 1]
          BY <5>1
        <5>3. CASE i <= n
          <6>1. f[i] = f[i - 1] \o seqs[i]
            <7>1. i \in 1 .. n
              BY <5>3
            <7> QED BY <3>1, <4>2, <7>1
          <6>2. g[i] = f[i]
            BY <5>3
          <6> QED BY <4>2, <5>2, <6>1, <6>2
        <5>4. CASE ~(i <= n)
          <6>1. g[i] = f[i - 1] \o seqs[i]
            BY <4>2, <5>4
          <6> QED BY <4>2, <5>2, <6>1
        <5> QED BY <5>3, <5>4
      <4> QED BY <4>1, <4>2
    <3> HIDE DEF g
    <3>3. Solves(g, n + 1)
      BY <3>2
    <3> QED BY <3>3
  <2> HIDE DEF Solves
  <2> QED BY <2>1, <2>2, Induction
<1>3. PICK f : Solves(f, N)
  BY <1>0, <1>2
<1> DEFINE g == [i \in 1 .. N |-> f[i]]
<1>4. g = Flat(g)
  <2>1. ASSUME NEW i \in 1 .. N PROVE g[i] = Flat(g)[i]
    <3>1. CASE i = 1
      BY <1>3, <3>1
    <3>2. CASE i # 1
      <4>1. i - 1 \in 1 .. N
        BY <1>0, <3>2
      <4> QED BY <1>3, <3>2, <4>1
    <3> QED BY <3>1, <3>2
  <2> HIDE DEF Solves
  <2> QED BY <2>1
<1>5. flatten = Flat(flatten)
  BY <1>4
<1> HIDE DEF flatten
<1>6. \A i \in 1 .. N : flatten[i] = IF i = 1 THEN seqs[i] ELSE flatten[i - 1] \o seqs[i]
  BY <1>5
<1>7. flatten[1] = seqs[1] /\ \A i \in 2 .. N : flatten[i] = flatten[i - 1] \o seqs[i]
  <2>1. 1 \in 1 .. N
    BY <1>0
  <2>2. ASSUME NEW i \in 2 .. N PROVE flatten[i] = flatten[i - 1] \o seqs[i]
    <3>1. i \in 1 .. N /\ i # 1
      BY <1>0
    <3> QED BY <1>6, <3>1
  <2> QED BY <1>6, <2>1, <2>2
<1> QED BY <1>1, <1>7 DEF Concatenates, N
-----------------------------------------------------------------------------
(* The samples that the filter has taken, one after the other. *)

(* The sequence s is t followed by u. *)
Joins(s, t, u) == s = t \o u

(* A filter that was given s, and has given n samples of it, holds l. *)
Holds(l, s, n) == Len(s) = Delay + n /\ l = SubSeq(s, n + 1, n + Delay)

(* The filter gives the samples after the ones that it has given. *)
LEMMA FilterContinues ==
  ASSUME NEW S, NEW s \in Seq(S), NEW l \in Seq(S), NEW in \in Seq(S), NEW n \in Nat,
         NEW all, Joins(all, s, in), Holds(l, s, n)
  PROVE  /\ \A i \in 1 .. Len(in) : Emerging(l, in)[i] = all[n + i]
         /\ Len(Emerging(l, in)) = Len(in)
         /\ Holds(Staying(l, in), all, n + Len(in))
<1> USE SamplesAssumption DEF Holds
<1> DEFINE cat == l \o in
<1>1. /\ Len(in) \in Nat /\ all \in Seq(S) /\ Len(all) = Delay + n + Len(in)
      /\ \A k \in 1 .. Len(all) : all[k] = IF k <= Delay + n THEN s[k] ELSE in[k - (Delay + n)]
  <2>1. all \in Seq(S) /\ Len(all) = Len(s) + Len(in)
    BY ConcatProperties DEF Joins
  <2>2. \A k \in 1 .. Len(s) + Len(in) : all[k] = IF k <= Len(s) THEN s[k] ELSE in[k - Len(s)]
    BY ConcatProperties, Zenon DEF Joins
  <2>3. Len(in) \in Nat
    OBVIOUS
  <2> QED BY <2>1, <2>2, <2>3
<1>2. Len(l) = Delay /\ \A k \in 1 .. Delay : l[k] = s[n + k]
  <2>1. ASSUME NEW k \in n + 1 .. n + Delay PROVE s[k] \in S
    <3>1. k \in 1 .. Len(s)
      OBVIOUS
    <3> QED BY <3>1, ElementOfSeq
  <2>2. /\ Len(SubSeq(s, n + 1, n + Delay)) = Delay
        /\ \A k \in 1 .. (n + Delay) - (n + 1) + 1 :
             SubSeq(s, n + 1, n + Delay)[k] = s[(n + 1) + k - 1]
    BY <2>1, SubSeqProperties
  <2>3. \A k \in 1 .. Delay : k \in 1 .. (n + Delay) - (n + 1) + 1 /\ (n + 1) + k - 1 = n + k
    OBVIOUS
  <2> QED BY <2>2, <2>3
<1>3. /\ cat \in Seq(S) /\ Len(cat) = Delay + Len(in)
      /\ \A k \in 1 .. Len(cat) : cat[k] = IF k <= Delay THEN l[k] ELSE in[k - Delay]
  BY <1>1, <1>2, ConcatProperties
<1> HIDE DEF cat
<1>4. ASSUME NEW k \in 1 .. Delay + Len(in) PROVE cat[k] = all[n + k]
  <2>1. CASE k <= Delay
    <3>1. k \in 1 .. Delay /\ n + k <= Delay + n
      BY <1>1, <2>1
    <3>2. n + k \in 1 .. Len(all)
      BY <1>1, <3>1
    <3> QED BY <1>1, <1>2, <1>3, <2>1, <3>1, <3>2
  <2>2. CASE ~(k <= Delay)
    <3>1. n + k \in 1 .. Len(all) /\ ~(n + k <= Delay + n) /\ (n + k) - (Delay + n) = k - Delay
      BY <1>1, <2>2
    <3> QED BY <1>1, <1>3, <2>2, <3>1
  <2> QED BY <2>1, <2>2
<1>5. \A k \in 1 .. Delay + Len(in) : cat[k] \in S
  BY <1>3, ElementOfSeq
<1>6. /\ \A i \in 1 .. Len(in) : Emerging(l, in)[i] = all[n + i]
      /\ Len(Emerging(l, in)) = Len(in)
  <2>1. /\ Len(SubSeq(cat, 1, Len(in))) = Len(in)
        /\ \A i \in 1 .. Len(in) : SubSeq(cat, 1, Len(in))[i] = cat[i]
    BY <1>1, <1>5, SubSeqProperties
  <2> QED BY <1>1, <1>4, <2>1 DEF Emerging, cat
<1>7. Staying(l, in) = SubSeq(all, n + Len(in) + 1, n + Len(in) + Delay)
  <2> DEFINE a == SubSeq(cat, Len(in) + 1, Len(in) + Delay)
             b == SubSeq(all, n + Len(in) + 1, n + Len(in) + Delay)
  <2>1. /\ a \in Seq(S) /\ Len(a) = Delay
        /\ \A i \in 1 .. Delay : a[i] = cat[Len(in) + i]
    BY <1>1, <1>5, SubSeqProperties
  <2>2. /\ b \in Seq(S) /\ Len(b) = Delay
        /\ \A i \in 1 .. Delay : b[i] = all[n + Len(in) + i]
    <3>1. ASSUME NEW k \in n + Len(in) + 1 .. n + Len(in) + Delay PROVE all[k] \in S
      <4>1. k \in 1 .. Len(all)
        BY <1>1
      <4> QED BY <1>1, <4>1, ElementOfSeq
    <3> QED BY <1>1, <3>1, SubSeqProperties
  <2>3. \A i \in 1 .. Delay : cat[Len(in) + i] = all[n + Len(in) + i]
    <3> TAKE i \in 1 .. Delay
    <3>1. Len(in) + i \in 1 .. Delay + Len(in) /\ n + (Len(in) + i) = n + Len(in) + i
      BY <1>1
    <3> QED BY <1>4, <3>1
  <2> HIDE DEF a, b
  <2>4. a = b
    BY <2>1, <2>2, <2>3, SeqEqual
  <2> QED BY <2>4 DEF Staying, a, b, cat
<1>8. n + Len(in) \in Nat /\ Len(all) = Delay + (n + Len(in))
  BY <1>1
<1> QED BY <1>6, <1>7, <1>8

LEMMA JoinsFacts ==
  ASSUME NEW S, NEW s \in Seq(S), NEW t \in Seq(S), NEW all, Joins(all, s, t)
  PROVE  /\ all \in Seq(S) /\ Len(all) = Len(s) + Len(t)
         /\ \A k \in 1 .. Len(s) : all[k] = s[k]
         /\ \A k \in 1 .. Len(t) : all[Len(s) + k] = t[k]
<1>1. Len(s) \in Nat /\ Len(t) \in Nat
  OBVIOUS
<1>2. all \in Seq(S) /\ Len(all) = Len(s) + Len(t)
  BY ConcatProperties DEF Joins
<1>3. \A k \in 1 .. Len(s) + Len(t) : all[k] = IF k <= Len(s) THEN s[k] ELSE t[k - Len(s)]
  BY ConcatProperties, Zenon DEF Joins
<1>4. ASSUME NEW k \in 1 .. Len(s) PROVE all[k] = s[k]
  <2>1. k \in 1 .. Len(s) + Len(t) /\ k <= Len(s)
    BY <1>1
  <2> QED BY <1>3, <2>1
<1>5. ASSUME NEW k \in 1 .. Len(t) PROVE all[Len(s) + k] = t[k]
  <2>1. Len(s) + k \in 1 .. Len(s) + Len(t) /\ ~(Len(s) + k <= Len(s)) /\ (Len(s) + k) - Len(s) = k
    BY <1>1
  <2> QED BY <1>3, <2>1
<1> QED BY <1>2, <1>4, <1>5

LEMMA JoinsAssociative ==
  ASSUME NEW S, NEW s \in Seq(S), NEW t \in Seq(S), NEW u \in Seq(S),
         NEW all, NEW start, NEW rest,
         Joins(start, s, t), Joins(rest, t, u), Joins(all, s, rest)
  PROVE  Joins(all, start, u)
<1>1. (s \o t) \o u = s \o (t \o u)
  BY ConcatAssociative
<1> QED BY <1>1 DEF Joins
(* Two blocks one after the other. *)
LEMMA ResampleConcat ==
  ASSUME NEW S, NEW ph \in 0 .. Decimation - 1, NEW s \in Seq(S), NEW t \in Seq(S)
  PROVE  Resample(ph, s \o t) = Resample(ph, s) \o Resample(NextPhase(ph, Len(s)), t)
<1> DEFINE next == NextPhase(ph, Len(s))
           all == s \o t
           a == Resample(ph, s)
           b == Resample(next, t)
           c == Resample(ph, all)
           out == OutputLen(ph, Len(s))
           more == OutputLen(next, Len(t))
<1>1. /\ Len(s) \in Nat /\ Len(t) \in Nat
      /\ all \in Seq(S) /\ Len(all) = Len(s) + Len(t)
      /\ \A k \in 1 .. Len(s) : all[k] = s[k]
      /\ \A k \in 1 .. Len(t) : all[Len(s) + k] = t[k]
  <2>1. Joins(all, s, t)
    BY DEF Joins
  <2> HIDE DEF all
  <2>2. all \in Seq(S) /\ Len(all) = Len(s) + Len(t)
    BY <2>1, JoinsFacts
  <2>3. \A k \in 1 .. Len(s) : all[k] = s[k]
    BY <2>1, JoinsFacts
  <2>4. \A k \in 1 .. Len(t) : all[Len(s) + k] = t[k]
    BY <2>1, JoinsFacts
  <2> QED BY <2>2, <2>3, <2>4
<1> HIDE DEF all
<1>2. /\ out \in Nat /\ next \in 0 .. Decimation - 1
      /\ OutputLen(ph, Len(all)) = out + more
      /\ \A j \in 1 .. more : Position(ph, out + j) = Len(s) + Position(next, j)
  BY <1>1, BlockContinues
<1>3. more \in Nat
  <2>1. next + Len(t) * Interpolation \in Nat
    BY <1>1, <1>2, SamplesAssumption
  <2> QED BY <2>1, Division, SamplesAssumption DEF OutputLen
<1>4. a \in Seq(S) /\ b \in Seq(S) /\ c \in Seq(S)
  BY <1>1, <1>2, ResampleType
<1>5. Len(a) = out /\ Len(b) = more /\ Len(c) = out + more
  BY <1>2, <1>3 DEF Resample
<1>6. /\ \A j \in 1 .. out : a[j] = s[Position(ph, j)]
      /\ \A j \in 1 .. more : b[j] = t[Position(next, j)]
      /\ \A j \in 1 .. out + more : c[j] = all[Position(ph, j)]
  BY <1>2 DEF Resample
<1>7. ASSUME NEW j \in 1 .. out PROVE c[j] = a[j]
  <2>1. Position(ph, j) \in 1 .. Len(s) /\ j \in 1 .. out + more
    BY <1>1, <1>2, <1>3, PositionInBlock
  <2> QED BY <1>1, <1>6, <2>1
<1>8. ASSUME NEW j \in 1 .. more PROVE c[out + j] = b[j]
  <2>1. Position(next, j) \in 1 .. Len(t) /\ out + j \in 1 .. out + more
    BY <1>1, <1>2, <1>3, PositionInBlock
  <2>2. c[out + j] = all[Len(s) + Position(next, j)]
    BY <1>2, <1>6, <2>1
  <2> QED BY <1>1, <1>6, <2>1, <2>2
<1> DEFINE d == a \o b
<1> HIDE DEF a, b, c, out, more, next
<1>9. /\ d \in Seq(S) /\ Len(d) = out + more
      /\ \A j \in 1 .. out : d[j] = a[j]
      /\ \A j \in 1 .. more : d[out + j] = b[j]
  <2>1. Joins(d, a, b)
    BY DEF Joins
  <2> HIDE DEF d
  <2>2. d \in Seq(S) /\ Len(d) = Len(a) + Len(b)
    BY <1>4, <2>1, JoinsFacts
  <2>3. \A j \in 1 .. Len(a) : d[j] = a[j]
    BY <1>4, <2>1, JoinsFacts
  <2>4. \A j \in 1 .. Len(b) : d[Len(a) + j] = b[j]
    BY <1>4, <2>1, JoinsFacts
  <2> QED BY <1>5, <2>2, <2>3, <2>4
<1> HIDE DEF d
<1>10. ASSUME NEW i \in 1 .. out + more PROVE c[i] = d[i]
  <2>1. CASE i <= out
    <3>1. i \in 1 .. out
      BY <1>2, <2>1
    <3> QED BY <1>7, <1>9, <3>1
  <2>2. CASE ~(i <= out)
    <3>1. i - out \in 1 .. more /\ out + (i - out) = i
      BY <1>2, <1>3, <2>2
    <3> QED BY <1>8, <1>9, <3>1
  <2> QED BY <2>1, <2>2
<1>11. c = d
  BY <1>4, <1>5, <1>9, <1>10, SeqEqual
<1> QED BY <1>11 DEF a, b, c, d, all, next

(* A filter loses and adds nothing. *)
LEMMA FilterKeepsAll ==
  ASSUME NEW S, NEW l \in Seq(S), Len(l) = Delay, NEW in \in Seq(S)
  PROVE  Emerging(l, in) \o Staying(l, in) = l \o in
<1> DEFINE all == l \o in
<1>1. all \in Seq(S) /\ Len(all) = Len(in) + Delay /\ Len(in) \in 0 .. Len(all)
  <2>1. all \in Seq(S) /\ Len(all) = Len(l) + Len(in)
    BY ConcatProperties
  <2>2. Len(in) \in Nat /\ Delay \in Nat
    BY SamplesAssumption
  <2> HIDE DEF all
  <2> QED BY <2>1, <2>2
<1> HIDE DEF all
<1>2. SubSeq(all, 1, Len(in)) \o SubSeq(all, Len(in) + 1, Len(all)) = all
  BY <1>1, Cut
<1> QED BY <1>1, <1>2 DEF Emerging, Staying, all

LEMMA ResampleJoins ==
  ASSUME NEW S, NEW ph \in 0 .. Decimation - 1, NEW s \in Seq(S), NEW t \in Seq(S),
         NEW all, Joins(all, s, t)
  PROVE  Joins(Resample(ph, all), Resample(ph, s), Resample(NextPhase(ph, Len(s)), t))
  BY ResampleConcat DEF Joins

(* What the resampler gives for s, after d. *)
MadeOf(d, ph, s) == d \o Resample(ph, s)

(* What has left the resampler and what its input will make of it do not    *)
(* change when it takes a block.                                            *)
LEMMA TransmitContinues ==
  ASSUME NEW S, NEW d \in Seq(S), NEW l \in Seq(S), Len(l) = Delay, NEW in \in Seq(S),
         NEW rest \in Seq(S), NEW ph \in 0 .. Decimation - 1,
         NEW block, NEW late, NEW all,
         Joins(block, in, rest), Joins(late, Staying(l, in), rest), Joins(all, l, block)
  PROVE  MadeOf(MadeOf(d, ph, Emerging(l, in)), NextPhase(ph, Len(in)), late)
           = MadeOf(d, ph, all)
<1> DEFINE e == Emerging(l, in)
           st == Staying(l, in)
           start == l \o in
           out == Resample(ph, e)
           more == Resample(NextPhase(ph, Len(in)), late)
           sent == d \o out
<1>1. e \in Seq(S) /\ Len(e) = Len(in) /\ st \in Seq(S) /\ Joins(start, e, st)
  BY FilterType, FilterKeepsAll DEF Joins
<1>2. Joins(start, l, in) /\ Joins(late, st, rest)
  BY DEF Joins
<1>3. Joins(e \o late, e, late) /\ Joins(sent, d, out) /\ Joins(out \o more, out, more)
      /\ Joins(d \o (out \o more), d, out \o more)
  BY DEF Joins
<1> HIDE DEF e, st, start, sent
<1>4. late \in Seq(S) /\ block \in Seq(S) /\ start \in Seq(S)
  BY <1>1, <1>2, JoinsFacts
<1>5. Joins(e \o late, start, rest)
  BY <1>1, <1>2, <1>3, JoinsAssociative
<1>6. Joins(all, start, rest)
  BY <1>2, JoinsAssociative
<1>7. e \o late = all
  BY <1>5, <1>6 DEF Joins
<1>8. Resample(ph, e \o late) = out \o more
  <2>1. Joins(Resample(ph, e \o late), Resample(ph, e), Resample(NextPhase(ph, Len(e)), late))
    BY <1>1, <1>3, <1>4, ResampleJoins
  <2> QED BY <1>1, <2>1 DEF Joins
<1>9. NextPhase(ph, Len(in)) \in 0 .. Decimation - 1
  BY ResampleType
<1>10. out \in Seq(S) /\ more \in Seq(S)
  BY <1>1, <1>4, <1>9, ResampleType
<1> HIDE DEF out, more
<1>11. Joins(d \o (out \o more), sent, more)
  BY <1>3, <1>10, JoinsAssociative
<1> QED BY <1>7, <1>8, <1>11 DEF Joins, e, out, more, sent, MadeOf

-----------------------------------------------------------------------------
(* Induction over sequences, one more element at a time. *)
LEMMA SeqInduction ==
  ASSUME NEW S, NEW P \in SUBSET Seq(S), <<>> \in P,
         \A s \in P : \A x \in S : Append(s, x) \in P
  PROVE  P = Seq(S)
<1> DEFINE Right == {n \in Nat : \A s \in Seq(S) : Len(s) = n => s \in P}
<1>1. 0 \in Right
  <2>1. \A s \in Seq(S) : Len(s) = 0 => s = <<>>
    OBVIOUS
  <2> QED BY <2>1
<1>2. ASSUME NEW n \in Right PROVE n + 1 \in Right
  <2> SUFFICES ASSUME NEW s \in Seq(S), Len(s) = n + 1 PROVE s \in P
    OBVIOUS
  <2> DEFINE front == [k \in 1 .. n |-> s[k]]
             last == s[n + 1]
  <2>1. last \in S
    <3>1. n + 1 \in 1 .. Len(s)
      OBVIOUS
    <3> QED BY <3>1, ElementOfSeq
  <2>2. front \in Seq(S) /\ Len(front) = n /\ \A k \in 1 .. n : front[k] = s[k]
    <3>1. \A k \in 1 .. n : s[k] \in S
      <4> TAKE k \in 1 .. n
      <4>1. k \in 1 .. Len(s)
        OBVIOUS
      <4> QED BY <4>1, ElementOfSeq
    <3>2. n \in Nat
      OBVIOUS
    <3> HIDE DEF Right, last
    <3> QED BY <3>1, <3>2
  <2> HIDE DEF front, last
  <2>3. front \in P
    BY <2>2
  <2>4. s = Append(front, last)
    <3>1. /\ Append(front, last) \in Seq(S) /\ Len(Append(front, last)) = n + 1
          /\ \A k \in 1 .. n : Append(front, last)[k] = front[k]
          /\ Append(front, last)[n + 1] = last
      <4>1. /\ Append(front, last) \in Seq(S) /\ Len(Append(front, last)) = Len(front) + 1
            /\ \A k \in 1 .. Len(front) : Append(front, last)[k] = front[k]
            /\ Append(front, last)[Len(front) + 1] = last
        <5>1. front \in Seq(S)
          BY <2>2
        <5>2. Append(front, last) \in Seq(S)
          BY <2>1, <5>1, AppendProperties
        <5>3. Len(Append(front, last)) = Len(front) + 1
          BY <2>1, <5>1, AppendProperties
        <5>4. \A k \in 1 .. Len(front) : Append(front, last)[k] = front[k]
          BY <2>1, <5>1, AppendProperties
        <5>5. Append(front, last)[Len(front) + 1] = last
          BY <2>1, <5>1, AppendProperties
        <5> QED BY <5>2, <5>3, <5>4, <5>5
      <4> QED BY <2>2, <4>1
    <3>2. \A k \in 1 .. n + 1 : k = n + 1 \/ k \in 1 .. n
      OBVIOUS
    <3>3. \A k \in 1 .. n + 1 : Append(front, last)[k] = s[k]
      BY <2>2, <3>1, <3>2 DEF last
    <3> QED BY <3>1, <3>3, SeqEqual
  <2> QED BY <2>1, <2>3, <2>4
<1>3. Right = Nat
  <2> HIDE DEF Right
  <2>1. Right \in SUBSET Nat
    BY DEF Right
  <2> QED BY <1>1, <1>2, <2>1, Induction
<1>4. ASSUME NEW s \in Seq(S) PROVE s \in P
  <2>1. Len(s) \in Right
    BY <1>3
  <2> QED BY <2>1
<1> QED BY <1>4

LEMMA FlattenEmpty == FlattenSeq(<<>>) = <<>>
  BY DEF FlattenSeq

(* One more sequence at the end. *)
LEMMA FlattenAppend ==
  ASSUME NEW seqs, NEW T, seqs \in Seq(T), NEW s \in T, \A t \in T : t \o <<>> = t /\ <<>> \o t = t
  PROVE  FlattenSeq(Append(seqs, s)) = FlattenSeq(seqs) \o s
<1> DEFINE N == Len(seqs)
           more == Append(seqs, s)
<1>1. /\ N \in Nat /\ Len(more) = N + 1 /\ more[N + 1] = s
      /\ \A i \in 1 .. N : more[i] = seqs[i]
  OBVIOUS
<1>2. Len(more) \in Nat \ {0}
  BY <1>1
<1>3. PICK g : Concatenates(g, more) /\ FlattenSeq(more) = g[N + 1]
  <2> HIDE DEF more, N
  <2> QED BY <1>1, <1>2, FlattenSteps
<1>4. CASE N = 0
  <2>1. seqs = <<>>
    BY <1>4
  <2>2. g[1] = s
    BY <1>1, <1>3, <1>4 DEF Concatenates
  <2>3. FlattenSeq(more) = s
    <3> HIDE DEF more, N
    <3> QED BY <1>3, <1>4, <2>2
  <2>4. <<>> \o s = s
    OBVIOUS
  <2>5. FlattenSeq(seqs) \o s = s
    BY <2>1, <2>4, FlattenEmpty
  <2> QED BY <2>3, <2>5
<1>5. CASE N # 0
  <2>1. PICK f : Concatenates(f, seqs) /\ FlattenSeq(seqs) = f[N]
    <3>1. Len(seqs) \in Nat \ {0}
      BY <1>1, <1>5
    <3> QED BY <3>1, FlattenSteps
  <2> HIDE DEF more, N
  <2> DEFINE Same == {n \in Nat : n + 1 <= N => f[n + 1] = g[n + 1]}
  <2>2. 0 \in Same
    <3>1. 1 \in 1 .. N
      BY <1>1, <1>5
    <3> QED BY <1>1, <1>3, <2>1, <3>1 DEF Concatenates
  <2>3. ASSUME NEW n \in Same PROVE n + 1 \in Same
    <3> SUFFICES ASSUME n + 2 <= N PROVE f[n + 2] = g[n + 2]
      OBVIOUS
    <3>1. n + 2 \in 2 .. N /\ n + 2 \in 2 .. N + 1 /\ (n + 2) - 1 = n + 1 /\ n + 1 <= N
          /\ n + 2 \in 1 .. N
      BY <1>1
    <3>2. f[n + 2] = f[(n + 2) - 1] \o seqs[n + 2]
      BY <2>1, <3>1 DEF Concatenates, N
    <3>3. g[n + 2] = g[(n + 2) - 1] \o more[n + 2]
      BY <1>1, <1>3, <3>1 DEF Concatenates
    <3>4. f[n + 1] = g[n + 1]
      BY <3>1
    <3> QED BY <1>1, <3>1, <3>2, <3>3, <3>4
  <2>4. Same = Nat
    <3> HIDE DEF Same
    <3>1. Same \in SUBSET Nat
      BY DEF Same
    <3> QED BY <2>2, <2>3, <3>1, Induction
  <2>5. f[N] = g[N]
    <3>1. N - 1 \in Nat /\ (N - 1) + 1 = N /\ (N - 1) + 1 <= N
      BY <1>1, <1>5
    <3>2. N - 1 \in Same
      BY <2>4, <3>1
    <3> QED BY <3>1, <3>2
  <2>6. g[N + 1] = g[N] \o s
    <3>1. N + 1 \in 2 .. N + 1 /\ (N + 1) - 1 = N
      BY <1>1, <1>5
    <3>2. g[N + 1] = g[(N + 1) - 1] \o more[N + 1]
      BY <1>1, <1>3, <3>1 DEF Concatenates
    <3> QED BY <1>1, <3>1, <3>2
  <2> QED BY <1>3, <2>1, <2>5, <2>6 DEF more
<1> QED BY <1>4, <1>5

(* The same, for sequences of elements of a set. *)
LEMMA FlattenFacts ==
  ASSUME NEW S, NEW seqs \in Seq(Seq(S))
  PROVE  /\ FlattenSeq(seqs) \in Seq(S)
         /\ \A s \in Seq(S) : FlattenSeq(Append(seqs, s)) = FlattenSeq(seqs) \o s
<1> DEFINE P == {t \in Seq(Seq(S)) : FlattenSeq(t) \in Seq(S)}
<1>1. \A t \in Seq(S) : t \o <<>> = t /\ <<>> \o t = t
  BY ConcatEmptySeq
<1>2. ASSUME NEW t \in Seq(Seq(S)), NEW s \in Seq(S)
      PROVE  FlattenSeq(Append(t, s)) = FlattenSeq(t) \o s
  BY <1>1, FlattenAppend
<1>3. <<>> \in P
  <2>1. <<>> \in Seq(S) /\ <<>> \in Seq(Seq(S))
    BY EmptySeq
  <2> QED BY <2>1, FlattenEmpty
<1>4. ASSUME NEW t \in P, NEW s \in Seq(S) PROVE Append(t, s) \in P
  <2>1. t \in Seq(Seq(S)) /\ FlattenSeq(t) \in Seq(S)
    OBVIOUS
  <2>2. FlattenSeq(t) \o s \in Seq(S)
    BY <2>1, ConcatProperties
  <2>3. Append(t, s) \in Seq(Seq(S))
    BY <2>1, AppendProperties
  <2>4. FlattenSeq(Append(t, s)) \in Seq(S)
    BY <1>2, <2>1, <2>2
  <2> QED BY <2>3, <2>4
<1>5. P = Seq(Seq(S))
  <2> HIDE DEF P
  <2>1. P \in SUBSET Seq(Seq(S))
    BY DEF P
  <2> QED BY <1>3, <1>4, <2>1, SeqInduction
<1> QED BY <1>2, <1>5

=============================================================================
