--------------------------- MODULE ReceptionProofs ---------------------------
(***************************************************************************)
(* Proofs about the reception of any sequence of frames, through any noise  *)
(* and losses, for any sizes and any resampling ratio.                      *)
(***************************************************************************)
EXTENDS Reception, SamplesProofs

(* Sample k of frame i, and the values that a sample can have. *)
FrameLen(i) == HeaderLen + Len(Frames[i][2])

Sample(i, k) == <<Header(Frames[i][1], i - 1), Frames[i][2], k>>

FrameSample == {Sample(i, k) : i \in DOMAIN Frames, k \in Nat \ {0}}

SampleSet == {Zero, Noise} \cup FrameSample

(* Sample s can come before sample t: the frames, and the samples of a      *)
(* frame, are in order.                                                     *)
Ordered(s, t) ==
  \A i, j \in DOMAIN Frames, k, l \in Nat :
    s = Sample(i, k) /\ t = Sample(j, l) => i < j \/ (i = j /\ k <= l)

InOrder(s) == \A a, b \in DOMAIN s : a < b => Ordered(s[a], s[b])

(* What the radio has given, what it may still give and what has not        *)
(* arrived are in order.                                                    *)
MediumInv ==
  /\ InOrder(dump) /\ InOrder(air) /\ InOrder(ahead)
  /\ \A a \in DOMAIN dump : \A b \in rpos + 1 .. Len(air) : Ordered(dump[a], air[b])
  /\ \A a \in DOMAIN dump : \A b \in DOMAIN ahead : Ordered(dump[a], ahead[b])
  /\ \A a \in DOMAIN air : \A b \in DOMAIN ahead : Ordered(air[a], ahead[b])

(* time() rounds down: elapsed may run ahead of the ticks, by less than a   *)
(* second.                                                                  *)
ClockInv ==
  /\ quiet \in Nat /\ quiet <= (Timeout + 1) * TicksPerSecond
  /\ quiet + TicksPerSecond > elapsed * TicksPerSecond + (IF elapsed <= Timeout THEN subsecond ELSE 0)

(* The input of the filter, and how much of it has come out. *)
Input == EmptyLine \o dump

EmergedLen == IF pc \in {"last", "done"} THEN Delay + Len(dump) ELSE Len(dump)

(* The j-th sample that the resampler makes of it, and how many of them the *)
(* synchronizer has taken.                                                  *)
At(j) == Input[Position(0, j)]

Taken == OutputLen(0, EmergedLen) - Len(pending)

ResamplerInv ==
  /\ pc \notin {"last", "done"} => line = SubSeq(Input, Len(dump) + 1, Len(dump) + Delay)
  /\ pc \notin {"feed", "last"} => pending = <<>>
  /\ phase = NextPhase(0, EmergedLen)
  /\ Len(pending) <= OutputLen(0, EmergedLen)
  /\ \A j \in 1 .. Len(pending) : pending[j] = At(Taken + j)

(* The first k samples of frame i end with sample e of the stream. *)
EndsAt(i, k, e) == k <= e /\ \A m \in 1 .. k : At(e - k + m) = Sample(i, m)

(* An intact open frame is one of the frames, and its samples are the last  *)
(* ones taken.                                                              *)
SyncInv ==
  sync # Seeking /\ sync.intact =>
    \E i \in DOMAIN Frames :
      /\ sync.header = Header(Frames[i][1], i - 1) /\ sync.payload = Frames[i][2]
      /\ sync.k \in 1 .. FrameLen(i) - 1
      /\ EndsAt(i, sync.k, Taken)

(* The payloads delivered are those of frames that the synchronizer has     *)
(* taken one after the other, before the open one.                          *)
DeliveredInv ==
  \E from \in [DOMAIN delivered -> Own], end \in [DOMAIN delivered -> Nat] :
    /\ \A i \in DOMAIN delivered :
         /\ delivered[i] = Frames[from[i]][2]
         /\ EndsAt(from[i], FrameLen(from[i]), end[i])
         /\ end[i] <= Taken
         /\ sync # Seeking /\ sync.intact => end[i] <= Taken - sync.k
    /\ \A i, j \in DOMAIN delivered : i < j => from[i] < from[j]

(* The frames that the synchronizer may hold open. *)
OpenFrames ==
  [header : {Noise} \cup {Header(Frames[i][1], i - 1) : i \in DOMAIN Frames},
   payload : Seq(Nat), k : Nat, intact : BOOLEAN]

Types ==
  /\ stop \in BOOLEAN /\ transferStop \in BOOLEAN /\ closed \in BOOLEAN
  /\ pc \in {"created", "loop", "read", "feed", "flush", "last", "done"}
  /\ air \in Seq(SampleSet) /\ ahead \in Seq(SampleSet) /\ dump \in Seq(SampleSet)
  /\ rpos \in 0 .. Len(air) /\ lost \in 0 .. MaxLost /\ Len(dump) <= rpos
  /\ line \in Seq(SampleSet) /\ Len(line) = Delay /\ phase \in 0 .. Decimation - 1
  /\ pending \in Seq(SampleSet)
  /\ pc # "last" \/ FlushFits => Len(pending) <= FrameSize + Delay
  /\ elapsed \in 0 .. Timeout + 1 /\ subsecond \in 0 .. TicksPerSecond - 1
  /\ sync \in OpenFrames \cup {Seeking} /\ delivered \in Seq(Seq(Nat))

(* The inductive invariant. *)
IInv ==
  /\ Types /\ ClockInv /\ MediumInv
  /\ ResamplerInv /\ SyncInv /\ DeliveredInv
-----------------------------------------------------------------------------
(* The medium. *)

LEMMA FrameFacts ==
  ASSUME NEW i \in DOMAIN Frames
  PROVE  /\ Frames[i][2] \in Seq(Nat) /\ FrameLen(i) \in Nat /\ FrameLen(i) > 1
         /\ FrameOf(i) = [k \in 1 .. FrameLen(i) |-> Sample(i, k)]
<1> USE SamplesAssumption, ReceptionAssumption
<1>1. Frames[i] \in STRING \X Seq(Nat)
  OBVIOUS
<1>2. Frames[i][2] \in Seq(Nat)
  BY <1>1
<1>3. FrameLen(i) \in Nat /\ FrameLen(i) > 1
  BY <1>2 DEF FrameLen
<1> QED BY <1>2, <1>3 DEF FrameOf, FrameSamples, FrameLen, Sample

LEMMA FramesDomain == DOMAIN Frames = 1 .. Len(Frames) /\ Len(Frames) \in Nat
  BY ReceptionAssumption

LEMMA SampleFacts ==
  ASSUME NEW i \in DOMAIN Frames, NEW k \in Nat
  PROVE  /\ Sample(i, k) # Zero /\ Sample(i, k) # Noise
         /\ \A j \in DOMAIN Frames, l \in Nat : Sample(i, k) = Sample(j, l) => i = j /\ k = l
<1>1. Len(Sample(i, k)) = 3
  BY DEF Sample
<1>2. Len(Zero) = 0 /\ Len(Noise) = 1
  BY DEF Zero, Noise
<1>3. ASSUME NEW j \in DOMAIN Frames, NEW l \in Nat, Sample(i, k) = Sample(j, l)
      PROVE  i = j /\ k = l
  <2>1. Header(Frames[i][1], i - 1) = Header(Frames[j][1], j - 1) /\ k = l
    BY <1>3 DEF Sample
  <2>2. i - 1 = j - 1
    BY <2>1 DEF Header
  <2> QED BY <2>1, <2>2, FramesDomain
<1> QED BY <1>1, <1>2, <1>3

LEMMA OrderedFacts ==
  /\ \A s : Ordered(s, Noise) /\ Ordered(Noise, s) /\ Ordered(s, Zero) /\ Ordered(Zero, s)
  /\ \A s : Ordered(s, s)
  /\ \A i, j \in DOMAIN Frames, k, l \in Nat :
       i < j \/ (i = j /\ k <= l) => Ordered(Sample(i, k), Sample(j, l))
<1>1. \A s : Ordered(s, Noise) /\ Ordered(Noise, s) /\ Ordered(s, Zero) /\ Ordered(Zero, s)
  BY SampleFacts DEF Ordered
<1>2. ASSUME NEW s PROVE Ordered(s, s)
  <2> SUFFICES ASSUME NEW i \in DOMAIN Frames, NEW j \in DOMAIN Frames, NEW k \in Nat, NEW l \in Nat,
                      s = Sample(i, k), s = Sample(j, l)
               PROVE  i < j \/ (i = j /\ k <= l)
    BY DEF Ordered
  <2>1. Sample(i, k) = Sample(j, l)
    OBVIOUS
  <2>2. i = j /\ k = l
    BY <2>1, SampleFacts
  <2> QED BY <2>2
<1>3. ASSUME NEW i \in DOMAIN Frames, NEW j \in DOMAIN Frames, NEW k \in Nat, NEW l \in Nat,
             i < j \/ (i = j /\ k <= l)
      PROVE  Ordered(Sample(i, k), Sample(j, l))
  BY <1>3, SampleFacts DEF Ordered
<1> QED BY <1>1, <1>2, <1>3

(* A sequence in order stays so with one more sample, or one less. *)
LEMMA InOrderAppend ==
  ASSUME NEW S, NEW s \in Seq(S), NEW x, InOrder(s),
         \A a \in DOMAIN s : Ordered(s[a], x)
  PROVE  InOrder(Append(s, x))
<1>1. /\ Len(s) \in Nat /\ DOMAIN s = 1 .. Len(s)
      /\ DOMAIN Append(s, x) = 1 .. Len(s) + 1
      /\ \A a \in 1 .. Len(s) : Append(s, x)[a] = s[a]
      /\ Append(s, x)[Len(s) + 1] = x
  OBVIOUS
<1> SUFFICES ASSUME NEW a \in 1 .. Len(s) + 1, NEW b \in 1 .. Len(s) + 1, a < b
             PROVE  Ordered(Append(s, x)[a], Append(s, x)[b])
  BY <1>1 DEF InOrder
<1>2. a \in 1 .. Len(s)
  BY <1>1
<1>3. CASE b = Len(s) + 1
  BY <1>1, <1>2, <1>3
<1>4. CASE b # Len(s) + 1
  <2>1. b \in 1 .. Len(s)
    BY <1>1, <1>4
  <2> QED BY <1>1, <1>2, <2>1 DEF InOrder
<1> QED BY <1>3, <1>4

LEMMA InOrderTail ==
  ASSUME NEW S, NEW s \in Seq(S), s # <<>>, InOrder(s)
  PROVE  /\ Head(s) \in S /\ Tail(s) \in Seq(S) /\ Head(s) = s[1] /\ 1 \in DOMAIN s
         /\ InOrder(Tail(s))
         /\ \A b \in DOMAIN Tail(s) : /\ Ordered(Head(s), Tail(s)[b])
                                      /\ b + 1 \in DOMAIN s /\ Tail(s)[b] = s[b + 1]
<1>1. /\ Len(s) \in Nat /\ Len(s) > 0 /\ DOMAIN s = 1 .. Len(s)
      /\ Head(s) = s[1] /\ Head(s) \in S /\ Tail(s) \in Seq(S)
  BY HeadTailProperties
<1>2. /\ DOMAIN Tail(s) = 1 .. Len(s) - 1
      /\ \A b \in 1 .. Len(s) - 1 : Tail(s)[b] = s[b + 1]
  BY <1>1, HeadTailProperties
<1>3. \A b \in 1 .. Len(s) - 1 : b + 1 \in 1 .. Len(s) /\ 1 < b + 1
  BY <1>1
<1>4. 1 \in 1 .. Len(s)
  BY <1>1
<1>5. \A b \in DOMAIN Tail(s) : Ordered(Head(s), Tail(s)[b])
  BY <1>1, <1>2, <1>3, <1>4 DEF InOrder
<1>6. InOrder(Tail(s))
  <2> SUFFICES ASSUME NEW a \in 1 .. Len(s) - 1, NEW b \in 1 .. Len(s) - 1, a < b
               PROVE  Ordered(Tail(s)[a], Tail(s)[b])
    BY <1>2 DEF InOrder
  <2>1. a + 1 < b + 1
    BY <1>1
  <2> QED BY <1>1, <1>2, <1>3, <2>1 DEF InOrder
<1> QED BY <1>1, <1>2, <1>3, <1>4, <1>5, <1>6

LEMMA InOrderConcat ==
  ASSUME NEW S, NEW s \in Seq(S), NEW t \in Seq(S), InOrder(s), InOrder(t),
         \A a \in DOMAIN s, b \in DOMAIN t : Ordered(s[a], t[b])
  PROVE  InOrder(s \o t)
<1>1. /\ Len(s) \in Nat /\ Len(t) \in Nat
      /\ DOMAIN s = 1 .. Len(s) /\ DOMAIN t = 1 .. Len(t)
      /\ DOMAIN (s \o t) = 1 .. Len(s) + Len(t)
      /\ \A a \in 1 .. Len(s) + Len(t) :
           (s \o t)[a] = IF a <= Len(s) THEN s[a] ELSE t[a - Len(s)]
  BY ConcatProperties
<1> SUFFICES ASSUME NEW a \in 1 .. Len(s) + Len(t), NEW b \in 1 .. Len(s) + Len(t), a < b
             PROVE  Ordered((s \o t)[a], (s \o t)[b])
  BY <1>1 DEF InOrder
<1>2. CASE b <= Len(s)
  <2>1. a \in 1 .. Len(s) /\ b \in 1 .. Len(s)
    BY <1>1, <1>2
  <2> QED BY <1>1, <2>1 DEF InOrder
<1>3. CASE a <= Len(s) /\ b > Len(s)
  <2>1. a \in 1 .. Len(s) /\ b - Len(s) \in 1 .. Len(t) /\ ~(b <= Len(s))
    BY <1>1, <1>3
  <2> QED BY <1>1, <2>1
<1>4. CASE a > Len(s)
  <2>1. /\ a - Len(s) \in 1 .. Len(t) /\ b - Len(s) \in 1 .. Len(t)
        /\ a - Len(s) < b - Len(s) /\ ~(a <= Len(s)) /\ ~(b <= Len(s))
    BY <1>1, <1>4
  <2> QED BY <1>1, <2>1 DEF InOrder
<1> QED BY <1>1, <1>2, <1>3, <1>4

LEMMA FrameInOrder ==
  ASSUME NEW i \in DOMAIN Frames
  PROVE  /\ FrameOf(i) \in Seq(SampleSet) /\ InOrder(FrameOf(i))
         /\ \A a \in DOMAIN FrameOf(i) : a \in Nat /\ FrameOf(i)[a] = Sample(i, a)
<1>1. /\ FrameLen(i) \in Nat
      /\ FrameOf(i) = [k \in 1 .. FrameLen(i) |-> Sample(i, k)]
  BY FrameFacts
<1>2. \A k \in 1 .. FrameLen(i) : Sample(i, k) \in SampleSet
  <2>1. \A k \in 1 .. FrameLen(i) : k \in Nat \ {0}
    BY <1>1
  <2> QED BY <2>1 DEF SampleSet, FrameSample
<1>3. FrameOf(i) \in Seq(SampleSet)
  BY <1>1, <1>2
<1>4. \A a, b \in 1 .. FrameLen(i) : a < b => Ordered(Sample(i, a), Sample(i, b))
  BY <1>1, OrderedFacts
<1> QED BY <1>1, <1>3, <1>4 DEF InOrder

(* In the first n frames one after the other, a frame ends before the next  *)
(* one begins.                                                              *)
Laid(s, n) ==
  /\ \A a \in DOMAIN s : \E i \in 1 .. n, k \in Nat \ {0} : s[a] = Sample(i, k)
  /\ \A i \in DOMAIN Frames, a \in DOMAIN s :
       s[a] = Sample(i, 1) => a + FrameLen(i) <= Len(s) + 1
  /\ \A i, j \in DOMAIN Frames, a, b \in DOMAIN s :
       s[a] = Sample(i, 1) /\ s[b] = Sample(j, 1) /\ a < b => i # j /\ b - a >= FrameLen(i)

LEMMA LaidConcat ==
  ASSUME NEW n \in Nat, n + 1 \in DOMAIN Frames, NEW s \in Seq(SampleSet), Laid(s, n)
  PROVE  Laid(s \o FrameOf(n + 1), n + 1)
<1> DEFINE t == FrameOf(n + 1)
           all == s \o t
           m == FrameLen(n + 1)
<1>1. /\ t \in Seq(SampleSet) /\ m \in Nat /\ m > 1 /\ Len(t) = m
      /\ \A k \in 1 .. m : t[k] = Sample(n + 1, k)
  <2>1. m \in Nat /\ m > 1 /\ t = [k \in 1 .. m |-> Sample(n + 1, k)]
    BY FrameFacts
  <2> HIDE DEF m
  <2> QED BY <2>1, FrameInOrder
<1>2. Joins(all, s, t)
  BY DEF Joins
<1> HIDE DEF t, all, m
<1>3. /\ all \in Seq(SampleSet) /\ Len(all) = Len(s) + m /\ Len(s) \in Nat
      /\ DOMAIN all = 1 .. Len(s) + m /\ DOMAIN s = 1 .. Len(s)
      /\ \A k \in 1 .. Len(s) : all[k] = s[k]
      /\ \A k \in 1 .. m : all[Len(s) + k] = Sample(n + 1, k)
  <2>1. /\ all \in Seq(SampleSet) /\ Len(all) = Len(s) + Len(t)
        /\ \A k \in 1 .. Len(s) : all[k] = s[k]
        /\ \A k \in 1 .. Len(t) : all[Len(s) + k] = t[k]
    <3>1. t \in Seq(SampleSet)
      BY <1>1
    <3> QED BY <1>2, <3>1, JoinsFacts
  <2>2. Len(s) \in Nat /\ DOMAIN s = 1 .. Len(s) /\ DOMAIN all = 1 .. Len(all)
    BY <2>1
  <2> QED BY <1>1, <2>1, <2>2
<1>4. ASSUME NEW a \in DOMAIN all, a \notin DOMAIN s
      PROVE  a - Len(s) \in 1 .. m /\ all[a] = Sample(n + 1, a - Len(s))
  <2>1. a - Len(s) \in 1 .. m /\ Len(s) + (a - Len(s)) = a
    BY <1>1, <1>3, <1>4
  <2> QED BY <1>3, <2>1
(* The new frame begins after the others. *)
<1>5. ASSUME NEW a \in DOMAIN all, a \notin DOMAIN s, NEW i \in DOMAIN Frames,
             all[a] = Sample(i, 1)
      PROVE  i = n + 1 /\ a = Len(s) + 1
  <2>1. a - Len(s) \in Nat /\ all[a] = Sample(n + 1, a - Len(s))
    BY <1>1, <1>4, <1>5
  <2>2. n + 1 = i /\ a - Len(s) = 1
    BY <1>5, <2>1, SampleFacts
  <2> QED BY <1>3, <2>2
<1>6. ASSUME NEW a \in DOMAIN s PROVE a \in DOMAIN all /\ all[a] = s[a] /\ a <= Len(s) /\ a \in Nat
  BY <1>1, <1>3
<1>7. ASSUME NEW a \in DOMAIN all PROVE \E i \in 1 .. n + 1, k \in Nat \ {0} : all[a] = Sample(i, k)
  <2>1. CASE a \in DOMAIN s
    <3>1. PICK i \in 1 .. n, k \in Nat \ {0} : s[a] = Sample(i, k)
      BY <2>1 DEF Laid
    <3>2. i \in 1 .. n + 1 /\ all[a] = s[a]
      BY <1>6, <2>1
    <3> QED BY <3>1, <3>2
  <2>2. CASE a \notin DOMAIN s
    <3>1. n + 1 \in 1 .. n + 1 /\ a - Len(s) \in Nat \ {0}
      BY <1>1, <1>4, <2>2
    <3> QED BY <1>4, <2>2, <3>1
  <2> QED BY <2>1, <2>2
<1>8. ASSUME NEW i \in DOMAIN Frames, NEW a \in DOMAIN all, all[a] = Sample(i, 1)
      PROVE  a + FrameLen(i) <= Len(all) + 1
  <2>1. FrameLen(i) \in Nat
    BY FrameFacts
  <2>2. CASE a \in DOMAIN s
    <3>1. a + FrameLen(i) <= Len(s) + 1 /\ a \in Nat
      BY <1>6, <1>8, <2>2 DEF Laid
    <3> QED BY <1>1, <1>3, <2>1, <3>1
  <2>3. CASE a \notin DOMAIN s
    <3>1. i = n + 1 /\ a = Len(s) + 1
      BY <1>5, <1>8, <2>3
    <3> QED BY <1>1, <1>3, <3>1 DEF m
  <2> QED BY <2>2, <2>3
<1>9. ASSUME NEW i \in DOMAIN Frames, NEW j \in DOMAIN Frames, NEW a \in DOMAIN all,
             NEW b \in DOMAIN all, all[a] = Sample(i, 1), all[b] = Sample(j, 1), a < b
      PROVE  i # j /\ b - a >= FrameLen(i)
  <2>1. FrameLen(i) \in Nat
    BY FrameFacts
  <2>2. CASE a \in DOMAIN s /\ b \in DOMAIN s
    <3>1. s[a] = Sample(i, 1) /\ s[b] = Sample(j, 1)
      BY <1>6, <1>9, <2>2
    <3> QED BY <1>9, <2>2, <3>1 DEF Laid
  <2>3. CASE a \in DOMAIN s /\ b \notin DOMAIN s
    <3>1. j = n + 1 /\ b = Len(s) + 1
      BY <1>5, <1>9, <2>3
    <3>2. s[a] = Sample(i, 1) /\ a \in Nat
      BY <1>6, <1>9, <2>3
    <3>3. a + FrameLen(i) <= Len(s) + 1
      BY <2>3, <3>2 DEF Laid
    <3>4. PICK i0 \in 1 .. n, k \in Nat \ {0} : s[a] = Sample(i0, k)
      BY <2>3 DEF Laid
    <3>5. i0 \in DOMAIN Frames
      BY FramesDomain
    <3>6. i = i0
      BY <3>2, <3>4, <3>5, SampleFacts
    <3> QED BY <1>3, <2>1, <3>1, <3>2, <3>3, <3>6
  <2>4. CASE a \notin DOMAIN s
    <3>1. a = Len(s) + 1
      BY <1>5, <1>9, <2>4
    <3>2. b \notin DOMAIN s
      BY <1>1, <1>3, <1>9, <3>1
    <3>3. b = Len(s) + 1
      BY <1>5, <1>9, <3>2
    <3> QED BY <1>3, <1>9, <3>1, <3>3
  <2> QED BY <2>2, <2>3, <2>4
<1>10. Laid(all, n + 1)
  BY <1>7, <1>8, <1>9 DEF Laid
<1> QED BY <1>10 DEF all, t

(* The frames one after the other. *)
LEMMA FlattenedInOrder ==
  LET flat == FlattenSeq([i \in DOMAIN Frames |-> FrameOf(i)])
  IN  flat \in Seq(SampleSet) /\ InOrder(flat) /\ Laid(flat, Len(Frames))
<1> DEFINE N == Len(Frames)
           seqs == [i \in DOMAIN Frames |-> FrameOf(i)]
<1>1. N \in Nat /\ DOMAIN Frames = 1 .. N
  BY FramesDomain
<1>2. /\ Len(seqs) = N /\ DOMAIN seqs = 1 .. N
      /\ \A i \in 1 .. N : seqs[i] = FrameOf(i)
  BY <1>1
<1> HIDE DEF seqs, N
<1>3. CASE N = 0
  <2>1. seqs = <<>>
    BY <1>1, <1>3 DEF seqs
  <2>2. FlattenSeq(seqs) = <<>>
    BY <1>2, <1>3, <2>1 DEF FlattenSeq
  <2>3. InOrder(<<>>) /\ Laid(<<>>, N)
    BY DEF InOrder, Laid
  <2> QED BY <2>2, <2>3 DEF seqs, N
<1>4. CASE N # 0
  <2>1. PICK f : Concatenates(f, seqs) /\ FlattenSeq(seqs) = f[N]
    <3>1. Len(seqs) \in Nat \ {0}
      BY <1>1, <1>2, <1>4
    <3> QED BY <1>2, <3>1, FlattenSteps
  <2> DEFINE Right == {n \in Nat : n + 1 <= N =>
                         f[n + 1] \in Seq(SampleSet) /\ InOrder(f[n + 1]) /\ Laid(f[n + 1], n + 1)}
  <2>2. Right = Nat
    <3>1. 0 \in Right
      <4>1. 1 \in DOMAIN Frames /\ f[1] = FrameOf(1)
        BY <1>1, <1>2, <1>4, <2>1 DEF Concatenates
      <4>2. Laid(<<>>, 0)
        BY DEF Laid
      <4>3. 0 + 1 \in DOMAIN Frames /\ <<>> \in Seq(SampleSet) /\ 0 + 1 = 1
        BY <4>1
      <4>4. Laid(<<>> \o FrameOf(1), 1)
        BY <4>2, <4>3, LaidConcat
      <4>5. FrameOf(1) \in Seq(SampleSet) /\ InOrder(FrameOf(1))
        BY <4>1, FrameInOrder
      <4>6. <<>> \o FrameOf(1) = FrameOf(1)
        BY <4>5, ConcatEmptySeq
      <4> QED BY <4>1, <4>4, <4>5, <4>6
    <3>2. ASSUME NEW n \in Right PROVE n + 1 \in Right
      <4> SUFFICES ASSUME n + 2 <= N
                   PROVE  /\ f[n + 2] \in Seq(SampleSet) /\ InOrder(f[n + 2])
                          /\ Laid(f[n + 2], n + 2)
        OBVIOUS
      <4> DEFINE s == f[n + 1]
                 t == FrameOf(n + 2)
      <4>1. n + 2 \in 2 .. N /\ (n + 2) - 1 = n + 1 /\ n + 1 <= N /\ n + 2 \in DOMAIN Frames
        BY <1>1
      <4>2. f[n + 2] = s \o t
        <5>1. f[n + 2] = f[(n + 2) - 1] \o seqs[n + 2]
          BY <1>2, <2>1, <4>1 DEF Concatenates
        <5>2. f[(n + 2) - 1] = f[n + 1]
          BY <4>1
        <5>3. seqs[n + 2] = FrameOf(n + 2)
          BY <1>1, <1>2, <4>1
        <5> QED BY <5>1, <5>2, <5>3
      <4>3. s \in Seq(SampleSet) /\ InOrder(s) /\ Laid(s, n + 1)
        BY <4>1
      <4>4. /\ t \in Seq(SampleSet) /\ InOrder(t)
            /\ \A a \in DOMAIN t : a \in Nat /\ t[a] = Sample(n + 2, a)
        BY <4>1, FrameInOrder
      <4> HIDE DEF s, t
      <4>5. ASSUME NEW a \in DOMAIN s, NEW b \in DOMAIN t PROVE Ordered(s[a], t[b])
        <5>1. PICK i \in 1 .. n + 1, k \in Nat : s[a] = Sample(i, k)
          BY <4>3 DEF Laid
        <5>2. i < n + 2 /\ i \in DOMAIN Frames
          BY <1>1, <4>1
        <5> QED BY <4>1, <4>4, <5>1, <5>2, OrderedFacts
      <4>6. s \o t \in Seq(SampleSet) /\ InOrder(s \o t)
        BY <4>3, <4>4, <4>5, InOrderConcat, ConcatProperties
      <4>7. Laid(s \o t, n + 2)
        <5>1. (n + 1) + 1 = n + 2 /\ n + 1 \in Nat
          OBVIOUS
        <5>2. Laid(s \o FrameOf((n + 1) + 1), (n + 1) + 1)
          BY <4>1, <4>3, <5>1, LaidConcat
        <5> QED BY <5>1, <5>2 DEF t
      <4> QED BY <4>2, <4>6, <4>7
    <3> QED BY <3>1, <3>2, Induction
  <2>3. N - 1 \in Nat /\ (N - 1) + 1 = N
    BY <1>1, <1>4
  <2>4. \A n \in Nat : n + 1 <= N => /\ f[n + 1] \in Seq(SampleSet) /\ InOrder(f[n + 1])
                                     /\ Laid(f[n + 1], n + 1)
    BY <2>2
  <2>5. f[N] \in Seq(SampleSet) /\ InOrder(f[N]) /\ Laid(f[N], N)
    BY <1>1, <2>3, <2>4
  <2> QED BY <2>1, <2>5 DEF seqs, N
<1> QED BY <1>3, <1>4

LEMMA ScriptInOrder == Script \in Seq(SampleSet) /\ InOrder(Script)
<1> USE SamplesAssumption
<1> DEFINE flat == FlattenSeq([i \in DOMAIN Frames |-> FrameOf(i)])
           f == flat \o <<Zero>>
           n == Len(f) * Decimation
           At1(j) == (j - 1) \div Decimation + 1
<1>1. flat \in Seq(SampleSet) /\ InOrder(flat)
  BY FlattenedInOrder
<1> HIDE DEF flat
<1>2. f \in Seq(SampleSet) /\ InOrder(f)
  <2>1. f = Append(flat, Zero) /\ Zero \in SampleSet
    BY <1>1 DEF SampleSet
  <2>2. InOrder(Append(flat, Zero))
    BY <1>1, OrderedFacts, InOrderAppend
  <2>3. Append(flat, Zero) \in Seq(SampleSet)
    BY <1>1, <2>1, AppendProperties
  <2> HIDE DEF f
  <2> QED BY <2>1, <2>2, <2>3
<1>3. Script = [j \in 1 .. n |-> f[At1(j)]]
  BY DEF Script, Raw, flat
<1> HIDE DEF f
<1>4. Len(f) \in Nat /\ DOMAIN f = 1 .. Len(f) /\ n \in Nat
  BY <1>2
<1>5. ASSUME NEW j \in 1 .. n PROVE At1(j) \in 1 .. Len(f)
  <2>1. j - 1 \in Nat /\ j - 1 < n
    BY <1>4
  <2>2. /\ (j - 1) \div Decimation \in Nat
        /\ ((j - 1) \div Decimation) * Decimation <= j - 1
    BY <2>1, Division
  <2> DEFINE q == (j - 1) \div Decimation
  <2>3. q \in Nat /\ q * Decimation <= j - 1
    BY <2>2
  <2> HIDE DEF q
  <2>4. q * Decimation < Len(f) * Decimation
    BY <1>4, <2>1, <2>3
  <2>5. ~(Len(f) <= q)
    <3> SUFFICES ASSUME Len(f) <= q PROVE FALSE
      OBVIOUS
    <3>1. Len(f) * Decimation <= q * Decimation
      BY <1>4, <2>3
    <3> QED BY <1>4, <2>3, <2>4, <3>1
  <2> QED BY <1>4, <2>3, <2>5 DEF q
<1>6. ASSUME NEW a \in 1 .. n, NEW b \in 1 .. n, a < b PROVE At1(a) <= At1(b)
  <2>1. (a - 1) \div Decimation <= (b - 1) \div Decimation
    BY <1>4, <1>6, QuotientMonotone
  <2> QED BY <1>4, <1>5, <2>1
<1> HIDE DEF n, At1
<1>7. Script \in Seq(SampleSet)
  BY <1>2, <1>3, <1>4, <1>5
<1>8. ASSUME NEW a \in 1 .. n, NEW b \in 1 .. n, a < b PROVE Ordered(f[At1(a)], f[At1(b)])
  <2>1. CASE At1(a) = At1(b)
    BY <2>1, OrderedFacts
  <2>2. CASE At1(a) < At1(b)
    BY <1>2, <1>4, <1>5, <2>2 DEF InOrder
  <2>3. At1(a) \in Nat /\ At1(b) \in Nat
    BY <1>4, <1>5
  <2> QED BY <1>6, <1>8, <2>1, <2>2, <2>3
<1>9. InOrder(Script)
  BY <1>3, <1>8 DEF InOrder
<1> QED BY <1>7, <1>9
-----------------------------------------------------------------------------
(* How far apart the frames of the script are. *)

(* A frame begins after the samples of those before it, as often as the     *)
(* transmitter repeats them. *)
Spaced(s) ==
  \A i, j \in DOMAIN Frames, x, y \in DOMAIN s :
    i < j /\ x < y /\ s[x] = Sample(i, 1) /\ s[y] = Sample(j, 1)
      => y - x > (FrameLen(i) - 1) * Decimation

(* The Decimation first samples of a frame, if they are all there, are the  *)
(* only ones like them. *)
Run(s, at, i) ==
  at + Decimation <= Len(s) /\ \A k \in 1 .. Decimation : s[at + k] = Sample(i, 1)

Single(s) ==
  \A i \in DOMAIN Frames, at \in Nat, x \in DOMAIN s :
    Run(s, at, i) /\ x <= at => s[x] # Sample(i, 1)

Clear(s) == \A x \in DOMAIN s : s[x] # Noise

(* The place of a sample of the script among the samples of the frames. *)
LEMMA RepeatedPlace ==
  ASSUME NEW x \in Nat, x > 0
  PROVE  LET a == (x - 1) \div Decimation + 1
         IN  a \in Nat /\ a > 0 /\ (a - 1) * Decimation < x /\ x <= a * Decimation
<1> USE SamplesAssumption
<1> DEFINE q == (x - 1) \div Decimation
<1>1. q \in Nat /\ q * Decimation <= x - 1 /\ x - 1 < q * Decimation + Decimation
  <2>1. x - 1 \in Nat
    OBVIOUS
  <2> QED BY <2>1, Division
<1> HIDE DEF q
<1>2. (q + 1) * Decimation = q * Decimation + Decimation /\ q * Decimation \in Nat
      /\ (q + 1) - 1 = q
  BY <1>1
<1>3. q + 1 \in Nat /\ q + 1 > 0 /\ ((q + 1) - 1) * Decimation < x /\ x <= (q + 1) * Decimation
  BY <1>1, <1>2
<1> QED BY <1>3 DEF q

LEMMA ScriptSpaced == Spaced(Script) /\ Single(Script) /\ Clear(Script)
<1> USE SamplesAssumption
<1> DEFINE D == Decimation
           flat == FlattenSeq([i \in DOMAIN Frames |-> FrameOf(i)])
           f == flat \o <<Zero>>
           n == Len(f) * D
           Place(x) == (x - 1) \div D + 1
<1>1. flat \in Seq(SampleSet) /\ Laid(flat, Len(Frames))
  BY FlattenedInOrder
<1> HIDE DEF flat
<1>2. /\ f \in Seq(SampleSet) /\ Len(f) = Len(flat) + 1 /\ Len(flat) \in Nat
      /\ \A a \in 1 .. Len(flat) : f[a] = flat[a]
      /\ f[Len(flat) + 1] = Zero
      /\ DOMAIN flat = 1 .. Len(flat)
  <2>1. f = Append(flat, Zero) /\ Zero \in SampleSet
    BY <1>1 DEF SampleSet
  <2> HIDE DEF f
  <2> QED BY <1>1, <2>1, AppendProperties
<1>3. Script = [x \in 1 .. n |-> f[Place(x)]]
  BY DEF Script, Raw, flat
<1> HIDE DEF f
<1>4. Len(f) \in Nat /\ n \in Nat /\ D \in Nat \ {0}
  BY <1>2
<1>5. ASSUME NEW x \in 1 .. n
      PROVE  /\ Place(x) \in 1 .. Len(f) /\ (Place(x) - 1) * D < x /\ x <= Place(x) * D
             /\ Script[x] = f[Place(x)]
  <2>1. Place(x) \in Nat /\ Place(x) > 0 /\ (Place(x) - 1) * D < x /\ x <= Place(x) * D
    BY <1>4, RepeatedPlace
  <2> DEFINE a == Place(x)
  <2>2. a \in Nat /\ a > 0 /\ (a - 1) * D < x
    BY <2>1
  <2> HIDE DEF a, D
  <2>3. ~(Len(f) <= a - 1)
    <3> SUFFICES ASSUME Len(f) <= a - 1 PROVE FALSE
      OBVIOUS
    <3>1. Len(f) * D <= (a - 1) * D /\ (a - 1) * D \in Nat
      BY <1>4, <2>2
    <3> QED BY <1>4, <2>2, <3>1
  <2>4. a \in 1 .. Len(f)
    BY <1>4, <2>2, <2>3
  <2> QED BY <1>3, <2>1, <2>4 DEF a, D
<1> HIDE DEF n, Place, D
<1>6. DOMAIN Script = 1 .. n /\ Len(Script) = n
  BY <1>3, <1>4
(* The first sample of a frame comes from its place. *)
<1>7. ASSUME NEW x \in 1 .. n, NEW i \in DOMAIN Frames, Script[x] = Sample(i, 1)
      PROVE  Place(x) \in DOMAIN flat /\ flat[Place(x)] = Sample(i, 1)
  <2>1. Place(x) # Len(flat) + 1
    BY <1>2, <1>5, <1>7, SampleFacts
  <2>2. Place(x) \in 1 .. Len(flat)
    BY <1>2, <1>5, <2>1
  <2> QED BY <1>2, <1>5, <1>7, <2>2
<1>8. Spaced(Script)
  <2> SUFFICES ASSUME NEW i \in DOMAIN Frames, NEW j \in DOMAIN Frames,
                      NEW x \in 1 .. n, NEW y \in 1 .. n, i < j, x < y,
                      Script[x] = Sample(i, 1), Script[y] = Sample(j, 1)
               PROVE  y - x > (FrameLen(i) - 1) * D
    BY <1>6 DEF Spaced, D
  <2> DEFINE a == Place(x)
             b == Place(y)
             m == FrameLen(i)
  <2>1. /\ a \in DOMAIN flat /\ b \in DOMAIN flat
        /\ flat[a] = Sample(i, 1) /\ flat[b] = Sample(j, 1)
    BY <1>7
  <2>2. /\ a \in Nat /\ b \in Nat /\ m \in Nat /\ x \in Nat /\ y \in Nat /\ m > 1 /\ a > 0 /\ b > 0
        /\ (a - 1) * D < x /\ x <= a * D /\ (b - 1) * D < y /\ y <= b * D
    BY <1>2, <1>4, <1>5, <2>1, FrameFacts
  <2> HIDE DEF a, b, m
  <2>3. a < b
    <3>1. CASE a = b
      <4>1. Sample(i, 1) = Sample(j, 1)
        BY <2>1, <3>1
      <4>2. i = j
        BY <4>1, SampleFacts
      <4> QED BY <4>2, FramesDomain
    <3>2. CASE b < a
      <4>1. b * D <= (a - 1) * D
        BY <1>4, <2>2, <3>2
      <4>2. b * D \in Nat /\ (a - 1) * D \in Nat
        BY <1>4, <2>2
      <4> QED BY <2>2, <4>1, <4>2
    <3> QED BY <2>2, <3>1, <3>2
  <2>4. b - a >= m
    BY <1>1, <2>1, <2>3 DEF Laid, m
  <2>5. (m - 1) * D <= (b - 1 - a) * D
    <3>1. m - 1 \in Nat /\ b - 1 - a \in Nat /\ m - 1 <= b - 1 - a
      BY <2>2, <2>4
    <3> QED BY <1>4, <3>1
  <2>6. (b - 1 - a) * D = (b - 1) * D - a * D
    BY <1>4, <2>2
  <2>7. (m - 1) * D \in Nat /\ (b - 1) * D \in Nat /\ a * D \in Nat
    BY <1>4, <2>2
  <2> QED BY <2>2, <2>5, <2>6, <2>7 DEF m
<1>9. Single(Script)
  <2> SUFFICES ASSUME NEW i \in DOMAIN Frames, NEW at \in Nat, NEW x \in 1 .. n,
                      Run(Script, at, i), x <= at, Script[x] = Sample(i, 1)
               PROVE  FALSE
    BY <1>6 DEF Single
  <2> DEFINE a == Place(at + 1)
             b == Place(at + D)
             c == Place(x)
  <2>1. /\ at + D <= n /\ at + 1 \in 1 .. n /\ at + D \in 1 .. n
        /\ Script[at + 1] = Sample(i, 1) /\ Script[at + D] = Sample(i, 1)
    <3>1. at + D <= n /\ \A k \in 1 .. D : Script[at + k] = Sample(i, 1)
      BY <1>6 DEF Run, D
    <3>2. 1 \in 1 .. D /\ D \in 1 .. D
      BY <1>4
    <3> QED BY <1>4, <3>1, <3>2
  <2>2. /\ a \in DOMAIN flat /\ b \in DOMAIN flat /\ c \in DOMAIN flat
        /\ flat[a] = Sample(i, 1) /\ flat[b] = Sample(i, 1) /\ flat[c] = Sample(i, 1)
    BY <1>7, <2>1
  <2>3. /\ (a - 1) * D < at + 1 /\ at + D <= b * D /\ (c - 1) * D < x /\ x <= c * D
    BY <1>5, <2>1
  <2>4. a \in Nat /\ b \in Nat /\ c \in Nat
    BY <1>2, <2>2
  <2> HIDE DEF a, b, c
  <2>5. a = b /\ a = c
    BY <1>1, <2>2, <2>4 DEF Laid
  <2>6. (a - 1) * D = a * D - D /\ a * D \in Nat
    BY <1>4, <2>4
  <2> QED BY <1>4, <2>3, <2>5, <2>6
<1>10. Clear(Script)
  <2> SUFFICES ASSUME NEW x \in 1 .. n PROVE Script[x] # Noise
    BY <1>6 DEF Clear
  <2>1. CASE Place(x) = Len(flat) + 1
    <3>1. Len(Zero) = 0 /\ Len(Noise) = 1
      BY DEF Zero, Noise
    <3>2. Script[x] = f[Place(x)]
      BY <1>5
    <3>3. Script[x] = Zero
      BY <1>2, <2>1, <3>2
    <3> QED BY <3>1, <3>3
  <2>2. CASE Place(x) # Len(flat) + 1
    <3>1. Place(x) \in DOMAIN flat /\ Script[x] = flat[Place(x)]
      BY <1>2, <1>5, <2>2
    <3>2. PICK i \in 1 .. Len(Frames), k \in Nat \ {0} : flat[Place(x)] = Sample(i, k)
      BY <1>1, <3>1 DEF Laid
    <3> QED BY <3>1, <3>2, SampleFacts, FramesDomain
  <2> QED BY <2>1, <2>2
<1> QED BY <1>8, <1>9, <1>10
-----------------------------------------------------------------------------
(* What a step leaves alone. *)

LEMMA LaterPart ==
  ASSUME NEW m \in Nat, NEW p \in Nat, m <= p, NEW n \in Nat
  PROVE  \A b \in p + 1 .. n : b \in m + 1 .. n
  OBVIOUS

LEMMA MediumUntouched ==
  ASSUME MediumInv, rpos \in Nat, rpos' \in Nat, rpos <= rpos', Len(air) \in Nat,
         UNCHANGED <<dump, air, ahead>>
  PROVE  MediumInv'
<1>1. \A b \in rpos' + 1 .. Len(air) : b \in rpos + 1 .. Len(air)
  BY LaterPart
<1>2. /\ DOMAIN dump' = DOMAIN dump /\ DOMAIN air' = DOMAIN air /\ DOMAIN ahead' = DOMAIN ahead
      /\ Len(air') = Len(air)
  OBVIOUS
<1> QED BY <1>1, <1>2 DEF MediumInv, InOrder

LEMMA ClockUntouched ==
  ASSUME ClockInv, UNCHANGED <<elapsed, subsecond, quiet>>
  PROVE  ClockInv'
BY DEF ClockInv

LEMMA ClockRestarts ==
  ASSUME Types, elapsed' = 0, quiet' = 0, subsecond' = subsecond
  PROVE  ClockInv'
<1>1. Timeout \in Nat /\ TicksPerSecond \in Nat \ {0} /\ subsecond \in 0 .. TicksPerSecond - 1
  BY ReceiveAssumption DEF Types
<1>2. (Timeout + 1) * TicksPerSecond \in Nat
  BY <1>1
<1> QED BY <1>1, <1>2 DEF ClockInv

LEMMA StreamUntouched ==
  ASSUME ResamplerInv, SyncInv, DeliveredInv,
         UNCHANGED <<dump, line, phase, pending, sync, delivered>>,
         EmergedLen' = EmergedLen,
         pc \in {"last", "done"} => pc' \in {"last", "done"},
         pc' \notin {"feed", "last"} => pending = <<>>
  PROVE  ResamplerInv' /\ SyncInv' /\ DeliveredInv'
<1>1. Input' = Input /\ Taken' = Taken /\ \A j : At(j)' = At(j)
  BY DEF Input, Taken, At
<1>2. ResamplerInv'
  BY <1>1 DEF ResamplerInv
<1>3. \A i, k, e : EndsAt(i, k, e)' <=> EndsAt(i, k, e)
  BY <1>1 DEF EndsAt
<1>4. SyncInv'
  BY <1>1, <1>3 DEF SyncInv
<1>5. DeliveredInv'
  BY <1>1, <1>3 DEF DeliveredInv
<1> QED BY <1>2, <1>4, <1>5
-----------------------------------------------------------------------------
(* The steps that move no sample. *)

LEMMA PlaceStep ==
  ASSUME IInv,
         \/ pc \in {"created", "loop", "read", "flush"} /\ pc' \in {"loop", "read", "flush"}
         \/ pc = "feed" /\ pending = <<>> /\ pc' \in {"loop", "read", "flush"}
         \/ pc = "last" /\ pending = <<>> /\ pc' = "done",
         stop' \in BOOLEAN, transferStop' \in BOOLEAN,
         UNCHANGED <<pending, mediumVars, radioVars, resamplerVars, syncVars, clockVars, ahead>>
  PROVE  IInv'
<1> USE DEF IInv, mediumVars, radioVars, resamplerVars, syncVars, clockVars
<1>1. Types'
  <2>1. pc' # "last" /\ pending = <<>>
    BY DEF ResamplerInv
  <2>2. Len(pending') <= FrameSize + Delay
    BY <2>1, ReceiveAssumption, SamplesAssumption
  <2> QED BY <2>2 DEF Types
<1>2. MediumInv'
  BY MediumUntouched DEF Types
<1>3. ClockInv'
  BY ClockUntouched
<1>4. ResamplerInv' /\ SyncInv' /\ DeliveredInv'
  <2>1. EmergedLen' = EmergedLen
    BY DEF EmergedLen
  <2>2. pending = <<>>
    BY DEF ResamplerInv
  <2> QED BY <2>1, <2>2, StreamUntouched
<1> QED BY <1>1, <1>2, <1>3, <1>4

LEMMA StartKeepsInv ==
  ASSUME IInv, Start, ahead' = ahead
  PROVE  IInv'
<1> USE DEF IInv, mediumVars, radioVars, resamplerVars, syncVars
<1>1. /\ pc = "created" /\ pc' = "loop" /\ stop' = FALSE /\ transferStop' = FALSE
      /\ elapsed' = 0 /\ quiet' = 0 /\ subsecond' = subsecond
      /\ UNCHANGED <<pending, air, closed, rpos, lost, dump, line, phase, sync, delivered>>
  BY DEF Start
<1>2. Types'
  <2>1. elapsed' \in 0 .. Timeout + 1
    BY <1>1, ReceiveAssumption
  <2>2. pending' = <<>> /\ Len(pending') <= FrameSize + Delay
    BY <1>1, ReceiveAssumption, SamplesAssumption DEF ResamplerInv
  <2> QED BY <1>1, <2>1, <2>2 DEF Types
<1>3. MediumInv'
  BY <1>1, MediumUntouched DEF Types
<1>4. ClockInv'
  BY <1>1, ClockRestarts
<1>5. ResamplerInv' /\ SyncInv' /\ DeliveredInv'
  <2>1. EmergedLen' = EmergedLen
    BY <1>1 DEF EmergedLen
  <2>2. pending = <<>>
    BY <1>1 DEF ResamplerInv
  <2> QED BY <1>1, <2>1, <2>2, StreamUntouched
<1> QED BY <1>2, <1>3, <1>4, <1>5

LEMMA CalmStepsKeepInv ==
  ASSUME IInv, TestStop \/ EndOfInput \/ BlockDone \/ Return, ahead' = ahead
  PROVE  IInv'
<1>1. CASE TestStop
  BY <1>1, PlaceStep DEF TestStop, IInv, Types
<1>2. CASE EndOfInput
  BY <1>2, PlaceStep DEF EndOfInput, IInv, Types
<1>3. CASE BlockDone
  BY <1>3, PlaceStep DEF BlockDone, IInv, Types
<1>4. CASE Return
  BY <1>4, PlaceStep DEF Return, IInv, Types
<1> QED BY <1>1, <1>2, <1>3, <1>4

(* The environment changes a flag, the position of the radio, the clock or  *)
(* the samples that have not been read.                                     *)
LEMMA EnvironmentStep ==
  ASSUME IInv, Types', ClockInv', MediumInv',
         UNCHANGED <<pc, pending, dump, line, phase, sync, delivered>>
  PROVE  IInv'
<1>1. EmergedLen' = EmergedLen
  BY DEF EmergedLen
<1>2. pc \notin {"feed", "last"} => pending = <<>>
  BY DEF IInv, ResamplerInv
<1>3. ResamplerInv' /\ SyncInv' /\ DeliveredInv'
  BY <1>1, <1>2, StreamUntouched DEF IInv
<1> QED BY <1>3 DEF IInv

LEMMA StopKeepsInv ==
  ASSUME IInv, StopAll \/ StopTransfer, ahead' = ahead
  PROVE  IInv'
<1> USE DEF IInv, mediumVars, radioVars, resamplerVars, syncVars, clockVars
<1>1. /\ stop' \in BOOLEAN /\ transferStop' \in BOOLEAN
      /\ UNCHANGED <<pc, pending, mediumVars, radioVars, resamplerVars, syncVars, clockVars>>
  BY DEF StopAll, StopTransfer, Types
<1>2. Types'
  BY <1>1 DEF Types
<1>3. MediumInv' /\ ClockInv'
  BY <1>1, MediumUntouched, ClockUntouched DEF Types
<1> QED BY <1>1, <1>2, <1>3, EnvironmentStep

LEMMA OverflowKeepsInv ==
  ASSUME IInv, Overflow, ahead' = ahead
  PROVE  IInv'
<1> USE DEF IInv, mediumVars, resamplerVars, syncVars, clockVars
<1>1. /\ rpos < Len(air) /\ lost < MaxLost /\ rpos' = rpos + 1 /\ lost' = lost + 1
      /\ UNCHANGED <<stop, transferStop, pc, pending, air, closed, dump, line, phase,
                     sync, delivered, subsecond, elapsed, quiet>>
  BY DEF Overflow
<1>2. rpos' \in 0 .. Len(air) /\ lost' \in 0 .. MaxLost /\ Len(dump) <= rpos'
  <2>1. Len(air) \in Nat /\ Len(dump) \in Nat
    BY DEF Types
  <2> QED BY <1>1, <2>1, ReceiveAssumption DEF Types
<1>3. Types'
  BY <1>1, <1>2 DEF Types
<1>4. MediumInv' /\ ClockInv'
  BY <1>1, <1>2, MediumUntouched, ClockUntouched DEF Types
<1> QED BY <1>1, <1>3, <1>4, EnvironmentStep

LEMMA ClockArithmetic ==
  ASSUME NEW T \in Nat \ {0}, NEW m \in Nat, NEW e \in 0 .. m + 1, NEW f \in 0 .. m + 1
  PROVE  /\ (m + 1) * T \in Nat /\ e * T \in Nat /\ f * T \in Nat
         /\ f * T <= (m + 1) * T
         /\ f = e + 1 => f * T = e * T + T
         /\ f <= m => f * T + T <= (m + 1) * T
<1>1. (m + 1) * T = m * T + T /\ m * T \in Nat /\ f * T \in Nat /\ e * T \in Nat
  OBVIOUS
<1>2. f * T <= (m + 1) * T
  OBVIOUS
<1>3. f = e + 1 => f * T = e * T + T
  OBVIOUS
<1>4. f <= m => f * T <= m * T
  OBVIOUS
<1> QED BY <1>1, <1>2, <1>3, <1>4

LEMMA TickKeepsInv ==
  ASSUME IInv, Tick, ahead' = ahead
  PROVE  IInv'
<1> USE DEF IInv, mediumVars, radioVars, resamplerVars, syncVars
<1> DEFINE T == TicksPerSecond
<1>1. /\ Timeout > 0 /\ subsecond' = (subsecond + 1) % T
      /\ elapsed' = IF subsecond' = 0 THEN Least(elapsed + 1, Timeout + 1) ELSE elapsed
      /\ quiet' = Least(quiet + 1, (Timeout + 1) * T)
      /\ UNCHANGED <<stop, transferStop, pc, pending, air, closed, rpos, lost, dump, line,
                     phase, sync, delivered>>
  BY DEF Tick
<1>2. /\ T \in Nat \ {0} /\ Timeout \in Nat /\ subsecond \in 0 .. T - 1
      /\ elapsed \in 0 .. Timeout + 1 /\ quiet \in Nat
  BY ReceiveAssumption DEF Types, ClockInv
<1> HIDE DEF T
(* The clock advances by a second when the ticks wrap around. *)
<1>3. \/ subsecond + 1 < T /\ subsecond' = subsecond + 1
      \/ subsecond + 1 = T /\ subsecond' = 0
  <2>1. CASE subsecond + 1 < T
    <3>1. subsecond + 1 = 0 * T + (subsecond + 1) /\ subsecond + 1 \in 0 .. T - 1
      BY <1>2, <2>1
    <3>2. (0 * T + (subsecond + 1)) % T = subsecond + 1
      BY <1>2, <3>1, DivisionUnique
    <3> QED BY <1>1, <2>1, <3>1, <3>2
  <2>2. CASE subsecond + 1 = T
    <3>1. (1 * T + 0) % T = 0 /\ 1 * T + 0 = T
      BY <1>2, DivisionUnique
    <3> QED BY <1>1, <2>2, <3>1
  <2> QED BY <1>2, <2>1, <2>2
<1>4. subsecond' \in 0 .. T - 1 /\ elapsed' \in 0 .. Timeout + 1
  BY <1>1, <1>2, <1>3 DEF Least
<1>5. Types'
  BY <1>1, <1>4 DEF Types, T
<1>6. ClockInv'
  <2> DEFINE max == (Timeout + 1) * T
             before == elapsed * T
             after == elapsed' * T
  <2>1. /\ max \in Nat /\ before \in Nat /\ after \in Nat /\ after <= max
        /\ elapsed' = elapsed => after = before
        /\ elapsed' = elapsed + 1 => after = before + T
        /\ elapsed' <= Timeout => after + T <= max
    BY <1>2, <1>4, ClockArithmetic
  <2>2. /\ quiet <= max
        /\ quiet + T > before + (IF elapsed <= Timeout THEN subsecond ELSE 0)
    BY DEF ClockInv, T
  <2>3. quiet' = (IF quiet + 1 < max THEN quiet + 1 ELSE max)
    BY <1>1 DEF Least
  <2>6. \/ elapsed' = elapsed /\ elapsed > Timeout
        \/ elapsed' = elapsed /\ elapsed <= Timeout /\ subsecond' = subsecond + 1
        \/ elapsed' = elapsed + 1 /\ subsecond + 1 = T /\ subsecond' = 0 /\ elapsed <= Timeout
    BY <1>1, <1>2, <1>3 DEF Least
  <2> HIDE DEF max, before, after
  <2>7. quiet' \in Nat /\ quiet' <= max
    BY <1>2, <2>1, <2>2, <2>3
  <2>8. quiet' + T > after + (IF elapsed' <= Timeout THEN subsecond' ELSE 0)
    <3>1. CASE elapsed' = elapsed /\ elapsed > Timeout
      <4>1. ~(elapsed <= Timeout) /\ ~(elapsed' <= Timeout) /\ after = before
        BY <1>2, <2>1, <3>1
      <4>2. quiet + T > before /\ quiet <= max
        BY <2>1, <2>2, <4>1
      <4>3. quiet' + T > after
        BY <1>2, <2>1, <2>3, <4>1, <4>2
      <4> QED BY <2>1, <4>1, <4>3
    <3>2. CASE elapsed' = elapsed /\ elapsed <= Timeout /\ subsecond' = subsecond + 1
      BY <1>2, <1>4, <2>1, <2>2, <2>3, <3>2
    <3>3. CASE elapsed' = elapsed + 1 /\ subsecond + 1 = T /\ subsecond' = 0 /\ elapsed <= Timeout
      BY <1>2, <1>4, <2>1, <2>2, <2>3, <3>3
    <3> QED BY <2>6, <3>1, <3>2, <3>3
  <2> QED BY <2>7, <2>8 DEF ClockInv, T, max, after
<1>7. MediumInv'
  BY <1>1, MediumUntouched DEF Types
<1> QED BY <1>1, <1>5, <1>6, <1>7, EnvironmentStep
-----------------------------------------------------------------------------
(* Samples arrive, and the radio gives some. *)

LEMMA ArriveOne ==
  ASSUME IInv, NEW x \in SampleSet, air' = Append(air, x),
         ahead' \in Seq(SampleSet), InOrder(ahead)', rpos' = rpos, dump' = dump,
         \A a \in DOMAIN air : Ordered(air[a], x),
         \A a \in DOMAIN dump : Ordered(dump[a], x),
         \A b \in DOMAIN ahead' : Ordered(x, ahead'[b]),
         \A b \in DOMAIN ahead' : \E c \in DOMAIN ahead : ahead'[b] = ahead[c]
  PROVE  MediumInv' /\ air' \in Seq(SampleSet) /\ rpos' \in 0 .. Len(air')
<1>1. air \in Seq(SampleSet) /\ dump \in Seq(SampleSet) /\ rpos \in 0 .. Len(air)
  BY DEF IInv, Types
<1>2. /\ Len(air) \in Nat /\ DOMAIN air = 1 .. Len(air)
      /\ DOMAIN air' = 1 .. Len(air) + 1 /\ Len(air') = Len(air) + 1
      /\ \A a \in 1 .. Len(air) : air'[a] = air[a]
      /\ air'[Len(air) + 1] = x /\ air' \in Seq(SampleSet)
  BY <1>1
<1>3. InOrder(air')
  BY <1>1, InOrderAppend DEF IInv, MediumInv
<1>4. ASSUME NEW a \in DOMAIN dump, NEW b \in rpos + 1 .. Len(air) + 1
      PROVE  Ordered(dump[a], air'[b])
  <2>1. CASE b = Len(air) + 1
    BY <1>2, <2>1
  <2>2. CASE b # Len(air) + 1
    <3>1. b \in rpos + 1 .. Len(air) /\ b \in 1 .. Len(air)
      BY <1>1, <1>2, <2>2
    <3> QED BY <1>2, <3>1 DEF IInv, MediumInv
  <2> QED BY <2>1, <2>2
<1>5. ASSUME NEW a \in DOMAIN dump, NEW b \in DOMAIN ahead'
      PROVE  Ordered(dump[a], ahead'[b])
  BY DEF IInv, MediumInv
<1>6. ASSUME NEW a \in 1 .. Len(air) + 1, NEW b \in DOMAIN ahead'
      PROVE  Ordered(air'[a], ahead'[b])
  <2>1. CASE a = Len(air) + 1
    BY <1>2, <2>1
  <2>2. CASE a # Len(air) + 1
    <3>1. a \in 1 .. Len(air)
      BY <1>2, <2>2
    <3> QED BY <1>2, <3>1 DEF IInv, MediumInv
  <2> QED BY <2>1, <2>2
<1>7. InOrder(dump) /\ InOrder(dump)' /\ InOrder(ahead)' /\ InOrder(air)'
  BY <1>3 DEF IInv, MediumInv, InOrder
<1>8. MediumInv'
  BY <1>2, <1>4, <1>5, <1>6, <1>7 DEF MediumInv
<1> QED BY <1>1, <1>2, <1>8

LEMMA ArriveKeepsInv ==
  ASSUME IInv, Arrive \/ ArriveNoise
  PROVE  IInv'
<1> USE DEF radioVars, resamplerVars, syncVars, clockVars
<1>1. /\ UNCHANGED <<stop, transferStop, pc, pending, closed, rpos, lost, dump, line, phase,
                     sync, delivered, subsecond, elapsed, quiet>>
  BY DEF Arrive, ArriveNoise
<1>2. Noise \in SampleSet
  BY DEF SampleSet
<1>3. /\ ahead \in Seq(SampleSet) /\ InOrder(ahead)
      /\ \A a \in DOMAIN dump, b \in DOMAIN ahead : Ordered(dump[a], ahead[b])
      /\ \A a \in DOMAIN air, b \in DOMAIN ahead : Ordered(air[a], ahead[b])
  BY DEF IInv, Types, MediumInv
<1>4. MediumInv' /\ air' \in Seq(SampleSet) /\ rpos' \in 0 .. Len(air') /\ ahead' \in Seq(SampleSet)
  <2>1. CASE ArriveNoise
    <3>1. air' = Append(air, Noise) /\ ahead' = ahead
      BY <2>1 DEF ArriveNoise
    <3>2. InOrder(ahead)'
      BY <1>3, <3>1 DEF InOrder
    <3> QED BY <1>1, <1>2, <1>3, <3>1, <3>2, ArriveOne, OrderedFacts
  <2>2. CASE Arrive
    <3>1. /\ ahead # <<>> /\ ahead' = Tail(ahead)
          /\ air' = Append(air, Head(ahead)) \/ air' = Append(air, Noise)
      BY <2>2 DEF Arrive
    <3>2. /\ Head(ahead) \in SampleSet /\ ahead' \in Seq(SampleSet)
          /\ Head(ahead) = ahead[1] /\ 1 \in DOMAIN ahead
          /\ InOrder(Tail(ahead))
          /\ \A b \in DOMAIN ahead' : /\ Ordered(Head(ahead), ahead'[b])
                                      /\ b + 1 \in DOMAIN ahead /\ ahead'[b] = ahead[b + 1]
      BY <1>3, <3>1, InOrderTail
    <3>3. InOrder(ahead)'
      BY <3>1, <3>2 DEF InOrder
    <3>4. CASE air' = Append(air, Head(ahead))
      BY <1>1, <1>3, <3>2, <3>3, <3>4, ArriveOne
    <3>5. CASE air' = Append(air, Noise)
      BY <1>1, <1>2, <3>2, <3>3, <3>5, ArriveOne, OrderedFacts
    <3> QED BY <3>1, <3>2, <3>4, <3>5
  <2> QED BY <2>1, <2>2
<1>5. Types' /\ ClockInv'
  BY <1>1, <1>4, ClockUntouched DEF IInv, Types
<1> QED BY <1>1, <1>4, <1>5, EnvironmentStep

LEMMA CloseKeepsInv ==
  ASSUME IInv, Close
  PROVE  IInv'
<1> USE DEF IInv, radioVars, resamplerVars, syncVars, clockVars
<1>1. /\ closed' = TRUE
      /\ UNCHANGED <<ahead, stop, transferStop, pc, pending, air, radioVars, resamplerVars,
                     syncVars, clockVars>>
  BY DEF Close
<1>2. Types' /\ MediumInv' /\ ClockInv'
  BY <1>1, MediumUntouched, ClockUntouched DEF Types
<1> QED BY <1>1, <1>2, EnvironmentStep

LEMMA ReadableFacts ==
  ASSUME IInv, NEW n \in Readable
  PROVE  n \in Nat /\ n <= SamplesSize /\ rpos + n <= Len(air) /\ rpos + n \in Nat
<1>1. rpos \in Nat /\ Len(air) \in Nat /\ rpos <= Len(air)
  BY DEF IInv, Types
<1>2. SamplesSize \in Nat
  <2>1. FrameSize * Decimation \in Nat
    BY SamplesAssumption, ReceiveAssumption
  <2> QED BY <2>1, SamplesAssumption, Division DEF SamplesSize
<1> DEFINE there == Least(SamplesSize, Len(air) - rpos)
<1>3. there \in Nat /\ there <= SamplesSize /\ there <= Len(air) - rpos
  BY <1>1, <1>2 DEF Least
<1>4. n \in 0 .. there
  BY <1>3 DEF Readable
<1> HIDE DEF there
<1> QED BY <1>1, <1>2, <1>3, <1>4

LEMMA TimeOutKeepsInv ==
  ASSUME IInv, NEW n \in Readable, TimeOut(n), ahead' = ahead
  PROVE  IInv'
<1> USE DEF mediumVars, resamplerVars, syncVars, clockVars
<1>1. /\ pc = "read" /\ pc' = "flush" /\ rpos' = rpos + n
      /\ UNCHANGED <<stop, transferStop, pending, air, closed, lost, dump, line, phase,
                     sync, delivered, subsecond, elapsed, quiet>>
  BY DEF TimeOut
<1>2. /\ rpos \in Nat /\ rpos' \in 0 .. Len(air) /\ rpos <= rpos' /\ Len(dump) <= rpos'
      /\ Len(air) \in Nat
  <2>1. rpos \in Nat /\ Len(dump) \in Nat /\ Len(dump) <= rpos /\ Len(air) \in Nat
    BY DEF IInv, Types
  <2> QED BY <1>1, <2>1, ReadableFacts
<1>3. Types'
  BY <1>1, <1>2 DEF IInv, Types
<1>4. MediumInv' /\ ClockInv'
  BY <1>1, <1>2, MediumUntouched, ClockUntouched DEF IInv
<1>5. ResamplerInv' /\ SyncInv' /\ DeliveredInv'
  <2>1. EmergedLen' = EmergedLen
    BY <1>1 DEF EmergedLen
  <2>2. pending = <<>>
    BY <1>1 DEF IInv, ResamplerInv
  <2> QED BY <1>1, <2>1, <2>2, StreamUntouched DEF IInv
<1> QED BY <1>3, <1>4, <1>5 DEF IInv
-----------------------------------------------------------------------------
(* The resampler. *)

LEMMA InputFacts ==
  ASSUME Types
  PROVE  /\ Input \in Seq(SampleSet) /\ Len(Input) = Delay + Len(dump) /\ Len(dump) \in Nat
         /\ EmergedLen \in Nat /\ EmergedLen <= Len(Input)
<1>1. EmptyLine \in Seq(SampleSet) /\ Len(EmptyLine) = Delay /\ Delay \in Nat
  BY SamplesAssumption DEF EmptyLine, SampleSet
<1>2. dump \in Seq(SampleSet) /\ Len(dump) \in Nat
  BY DEF Types
<1>3. Input \in Seq(SampleSet) /\ Len(Input) = Delay + Len(dump)
  BY <1>1, <1>2, ConcatProperties DEF Input
<1> QED BY <1>1, <1>2, <1>3 DEF EmergedLen

(* The samples that the synchronizer has taken do not change. *)
LEMMA TakenUnchanged ==
  ASSUME SyncInv, DeliveredInv, Taken' = Taken, UNCHANGED <<sync, delivered>>,
         Taken \in Nat, \A j \in 1 .. Taken : At(j)' = At(j)
  PROVE  SyncInv' /\ DeliveredInv'
<1>1. ASSUME NEW i \in DOMAIN Frames, NEW k \in Nat, NEW e \in Nat, e <= Taken, EndsAt(i, k, e)
      PROVE  EndsAt(i, k, e)'
  <2>1. \A m \in 1 .. k : e - k + m \in 1 .. Taken
    BY <1>1 DEF EndsAt
  <2> QED BY <1>1, <2>1 DEF EndsAt
<1>2. SyncInv'
  <2> SUFFICES ASSUME sync # Seeking, sync.intact
               PROVE  \E i \in DOMAIN Frames :
                        /\ sync.header = Header(Frames[i][1], i - 1)
                        /\ sync.payload = Frames[i][2]
                        /\ sync.k \in 1 .. FrameLen(i) - 1
                        /\ EndsAt(i, sync.k, Taken)'
    BY DEF SyncInv
  <2>1. PICK i \in DOMAIN Frames :
          /\ sync.header = Header(Frames[i][1], i - 1)
          /\ sync.payload = Frames[i][2]
          /\ sync.k \in 1 .. FrameLen(i) - 1
          /\ EndsAt(i, sync.k, Taken)
    BY DEF SyncInv
  <2>2. sync.k \in Nat
    BY <2>1, FrameFacts
  <2>3. EndsAt(i, sync.k, Taken)'
    BY <1>1, <2>1, <2>2
  <2> QED BY <2>1, <2>3
<1>3. DeliveredInv'
  <2>1. PICK from \in [DOMAIN delivered -> Own], end \in [DOMAIN delivered -> Nat] :
          /\ \A i \in DOMAIN delivered :
               /\ delivered[i] = Frames[from[i]][2]
               /\ EndsAt(from[i], FrameLen(from[i]), end[i])
               /\ end[i] <= Taken
               /\ sync # Seeking /\ sync.intact => end[i] <= Taken - sync.k
          /\ \A i, j \in DOMAIN delivered : i < j => from[i] < from[j]
    BY DEF DeliveredInv
  <2>2. ASSUME NEW i \in DOMAIN delivered
        PROVE  EndsAt(from[i], FrameLen(from[i]), end[i])'
    <3>1. from[i] \in DOMAIN Frames
      BY DEF Own
    <3>2. FrameLen(from[i]) \in Nat
      BY <3>1, FrameFacts
    <3> QED BY <1>1, <2>1, <3>1, <3>2
  <2> QED BY <2>1, <2>2 DEF DeliveredInv
<1> QED BY <1>2, <1>3

(* The filter and the resampler take some more samples. *)
LEMMA ExecuteStep ==
  ASSUME Types, ResamplerInv, pending = <<>>, pc \notin {"last", "done"},
         NEW in \in Seq(SampleSet), Execute(in),
         EmergedLen' = Len(dump) + Len(in),
         \A k \in 1 .. Len(dump) + Len(in) : Input'[k] = (Input \o in)[k],
         pc' \in {"feed", "last"},
         pc' = "feed" => Input' = Input \o in /\ Len(dump') = Len(dump) + Len(in)
  PROVE  /\ ResamplerInv'
         /\ Taken' = Taken /\ Taken \in Nat /\ \A j \in 1 .. Taken : At(j)' = At(j)
         /\ line' \in Seq(SampleSet) /\ Len(line') = Delay /\ phase' \in 0 .. Decimation - 1
         /\ pending' \in Seq(SampleSet) /\ Len(pending') = OutputLen(phase, Len(in))
<1> DEFINE L == Len(dump)
           n == Len(in)
           emerging == Emerging(line, in)
           out == OutputLen(0, L)
           more == OutputLen(phase, n)
<1>1. /\ Input \in Seq(SampleSet) /\ Len(Input) = Delay + L /\ L \in Nat
      /\ line \in Seq(SampleSet) /\ Len(line) = Delay /\ phase \in 0 .. Decimation - 1
      /\ n \in Nat /\ Delay \in Nat
  BY InputFacts, SamplesAssumption DEF Types
<1>2. line = SubSeq(Input, L + 1, L + Delay) /\ phase = NextPhase(0, L) /\ EmergedLen = L
  BY DEF ResamplerInv, EmergedLen
<1>3. /\ line' = Staying(line, in) /\ phase' = NextPhase(phase, n)
      /\ pending' = Resample(phase, emerging)
  BY DEF Execute
<1>4. /\ emerging \in Seq(SampleSet) /\ Len(emerging) = n
      /\ line' \in Seq(SampleSet) /\ Len(line') = Delay
  BY <1>1, <1>3, FilterType
<1>5. /\ pending' \in Seq(SampleSet) /\ Len(pending') = more
      /\ \A j \in 1 .. more : pending'[j] = emerging[Position(phase, j)]
      /\ phase' \in 0 .. Decimation - 1 /\ more \in Nat
  <2>1. pending' \in Seq(SampleSet) /\ phase' \in 0 .. Decimation - 1
    BY <1>1, <1>3, <1>4, ResampleType
  <2>2. more \in Nat
    <3>1. phase + n * Interpolation \in Nat
      BY <1>1, SamplesAssumption
    <3> QED BY <3>1, SamplesAssumption, Division DEF OutputLen
  <2>3. pending' = [j \in 1 .. more |-> emerging[Position(phase, j)]]
    BY <1>3, <1>4 DEF Resample
  <2> HIDE DEF more, emerging
  <2> QED BY <2>1, <2>2, <2>3
<1>6. /\ \A i \in 1 .. n : emerging[i] = (Input \o in)[L + i]
      /\ line' = SubSeq(Input \o in, L + n + 1, L + n + Delay)
  <2> DEFINE all == Input \o in
  <2>1. Joins(all, Input, in) /\ Holds(line, Input, L)
    BY <1>1, <1>2 DEF Joins, Holds
  <2>2. in \in Seq(SampleSet) /\ Input \in Seq(SampleSet) /\ line \in Seq(SampleSet) /\ L \in Nat
    BY <1>1
  <2> HIDE DEF all, L
  <2>3. /\ \A i \in 1 .. Len(in) : Emerging(line, in)[i] = all[L + i]
        /\ Holds(Staying(line, in), all, L + Len(in))
    BY <2>1, <2>2, FilterContinues
  <2> QED BY <1>3, <2>3 DEF Holds, all
<1>7. /\ OutputLen(0, L + n) = out + more
      /\ NextPhase(0, L + n) = NextPhase(phase, n)
      /\ \A j \in 1 .. more : Position(0, out + j) = L + Position(phase, j)
  BY <1>1, <1>2, ResampleContinues
<1>8. out \in Nat /\ OutputLen(0, 0) \in Nat
  BY <1>1, OutputMonotone
<1>9. Taken = out /\ Taken' = out
  <2>1. Len(pending) = 0
    OBVIOUS
  <2> HIDE DEF more, out
  <2>2. OutputLen(0, EmergedLen)' = out + more
    BY <1>7
  <2> QED BY <1>2, <1>5, <1>8, <2>1, <2>2 DEF Taken, out
<1> HIDE DEF more, out, n, L, emerging
<1>10. ASSUME NEW j \in 1 .. more PROVE pending'[j] = Input'[Position(0, out + j)]
  <2>1. Position(phase, j) \in 1 .. n
    BY <1>1, PositionInBlock DEF more
  <2>2. L + Position(phase, j) \in 1 .. L + n
    BY <1>1, <2>1
  <2>3. pending'[j] = (Input \o in)[L + Position(phase, j)]
    BY <1>5, <1>6, <2>1
  <2>4. Position(0, out + j) = L + Position(phase, j)
    BY <1>7
  <2> QED BY <2>2, <2>3, <2>4 DEF L, n
<1>11. ASSUME NEW j \in 1 .. out PROVE At(j)' = At(j)
  <2>1. Position(0, j) \in 1 .. L
    <3>1. 0 \in 0 .. Decimation - 1
      BY SamplesAssumption
    <3> QED BY <1>1, <3>1, PositionInBlock DEF out
  <2>2. Position(0, j) \in 1 .. L + n /\ Position(0, j) \in 1 .. Len(Input)
    BY <1>1, <2>1
  <2>3. (Input \o in)[Position(0, j)] = Input[Position(0, j)]
    <3>1. \A k \in 1 .. Len(Input) + Len(in) :
            (Input \o in)[k] = IF k <= Len(Input) THEN Input[k] ELSE in[k - Len(Input)]
      BY <1>1, ConcatProperties, Zenon
    <3>2. Position(0, j) \in 1 .. Len(Input) + Len(in) /\ Position(0, j) <= Len(Input)
      BY <1>1, <2>1 DEF n
    <3> QED BY <3>1, <3>2
  <2>4. Input'[Position(0, j)] = Input[Position(0, j)]
    BY <2>2, <2>3 DEF L, n
  <2> QED BY <2>4 DEF At
<1>12. ResamplerInv'
  <2>1. pc' \notin {"last", "done"} => line' = SubSeq(Input', Len(dump') + 1, Len(dump') + Delay)
    BY <1>6 DEF L, n
  <2>2. phase' = NextPhase(0, EmergedLen')
    BY <1>3, <1>7 DEF L, n
  <2>3. Len(pending') <= OutputLen(0, EmergedLen')
    BY <1>5, <1>7, <1>8 DEF L, n
  <2>4. \A j \in 1 .. Len(pending') : pending'[j] = Input'[Position(0, Taken' + j)]
    BY <1>5, <1>9, <1>10
  <2>5. pc' \in {"feed", "last"}
    OBVIOUS
  <2> QED BY <2>1, <2>2, <2>3, <2>4, <2>5 DEF ResamplerInv, At
<1> QED BY <1>4, <1>5, <1>8, <1>9, <1>11, <1>12 DEF more, n

(* What comes out fits where it goes. *)
LEMMA OutputBound ==
  ASSUME NEW ph \in 0 .. Decimation - 1, NEW m \in Nat, NEW b \in Nat,
         m * Interpolation <= b * Decimation
  PROVE  OutputLen(ph, m) \in Nat /\ OutputLen(ph, m) <= b
<1> USE SamplesAssumption
<1> DEFINE x == ph + m * Interpolation
           q == x \div Decimation
<1>1. x \in Nat /\ m * Interpolation \in Nat /\ b * Decimation \in Nat
  OBVIOUS
<1>2. x < b * Decimation + Decimation
  BY <1>1
<1> HIDE DEF x
<1>3. q \in Nat /\ q * Decimation <= x
  BY <1>1, Division
<1> HIDE DEF q
<1>4. ~(b + 1 <= q)
  <2> SUFFICES ASSUME b + 1 <= q PROVE FALSE
    OBVIOUS
  <2>1. (b + 1) * Decimation <= q * Decimation
    BY <1>3
  <2>2. (b + 1) * Decimation = b * Decimation + Decimation
    OBVIOUS
  <2>3. q * Decimation \in Nat
    BY <1>3
  <2> QED BY <1>1, <1>2, <1>3, <2>1, <2>2, <2>3
<1>5. q <= b
  BY <1>3, <1>4
<1> QED BY <1>3, <1>5 DEF q, x, OutputLen

(* A flush gives the most at the last phase. *)
LEMMA FlushLength ==
  ASSUME NEW ph \in 0 .. Decimation - 1, FlushFits
  PROVE  OutputLen(ph, Delay) <= FrameSize + Delay
<1> USE SamplesAssumption
<1> DEFINE most == Decimation - 1
<1>1. Delay * Interpolation \in Nat /\ most \in Nat /\ ph <= most /\ ph \in Nat
  OBVIOUS
<1> HIDE DEF most
<1>2. (ph + Delay * Interpolation) \div Decimation <= (most + Delay * Interpolation) \div Decimation
  BY <1>1, QuotientMonotone
<1>3. (ph + Delay * Interpolation) \div Decimation \in Nat
      /\ (most + Delay * Interpolation) \div Decimation \in Nat
  BY <1>1, Division
<1>4. (most + Delay * Interpolation) \div Decimation <= FrameSize + Delay
  BY DEF FlushFits, OutputLen, most
<1>5. FrameSize + Delay \in Nat
  BY ReceiveAssumption
<1> QED BY <1>2, <1>3, <1>4, <1>5 DEF OutputLen

(* It fits if the radio is sampled at least as fast as the frames, and up to *)
(* twice as slow if the delay is at most a block.                           *)
THEOREM FlushAlwaysFits ==
  ASSUME \/ Interpolation <= Decimation
         \/ Interpolation <= 2 * Decimation /\ Delay <= FrameSize
  PROVE  FlushFits
<1> USE SamplesAssumption, ReceiveAssumption
<1>1. Decimation - 1 \in 0 .. Decimation - 1 /\ FrameSize + Delay \in Nat /\ Delay \in Nat
  OBVIOUS
<1>2. Delay * Interpolation <= (FrameSize + Delay) * Decimation
  <2>1. CASE Interpolation <= Decimation
    <3>1. Delay * Interpolation <= Delay * Decimation
      BY <2>1
    <3>2. (FrameSize + Delay) * Decimation = FrameSize * Decimation + Delay * Decimation
      OBVIOUS
    <3>3. FrameSize * Decimation \in Nat /\ Delay * Decimation \in Nat /\ Delay * Interpolation \in Nat
      OBVIOUS
    <3> QED BY <3>1, <3>2, <3>3
  <2>2. CASE Interpolation <= 2 * Decimation /\ Delay <= FrameSize
    <3>1. Delay * Interpolation <= Delay * (2 * Decimation)
      BY <2>2
    <3>2. Delay * (2 * Decimation) = Delay * Decimation + Delay * Decimation
      OBVIOUS
    <3>3. Delay * Decimation <= FrameSize * Decimation
      BY <2>2
    <3>4. (FrameSize + Delay) * Decimation = FrameSize * Decimation + Delay * Decimation
      OBVIOUS
    <3>5. FrameSize * Decimation \in Nat /\ Delay * Decimation \in Nat /\ Delay * Interpolation \in Nat
      OBVIOUS
    <3> QED BY <3>1, <3>2, <3>3, <3>4, <3>5
  <2> QED BY <2>1, <2>2
<1> QED BY <1>1, <1>2, OutputBound DEF FlushFits

(* The zeros that flush the filter. *)
LEMMA FlushStep ==
  ASSUME IInv, Flush
  PROVE  /\ ResamplerInv'
         /\ Taken' = Taken /\ Taken \in Nat /\ \A j \in 1 .. Taken : At(j)' = At(j)
         /\ line' \in Seq(SampleSet) /\ Len(line') = Delay /\ phase' \in 0 .. Decimation - 1
         /\ pending' \in Seq(SampleSet) /\ Len(pending') = OutputLen(phase, Len(EmptyLine))
<1> USE DEF mediumVars, radioVars, syncVars, clockVars
<1>1. /\ pc = "flush" /\ pc' = "last" /\ Execute(EmptyLine)
      /\ UNCHANGED <<stop, transferStop, air, closed, rpos, lost, dump, sync, delivered,
                     subsecond, elapsed, quiet>>
  BY DEF Flush
<1>2. /\ EmptyLine \in Seq(SampleSet) /\ Len(EmptyLine) = Delay /\ Delay \in Nat
      /\ Len(dump) \in Nat /\ Input \in Seq(SampleSet) /\ Len(Input) = Delay + Len(dump)
      /\ phase \in 0 .. Decimation - 1
  <2>1. Types
    BY DEF IInv
  <2>2. EmptyLine \in Seq(SampleSet) /\ Len(EmptyLine) = Delay
    BY SamplesAssumption DEF EmptyLine, SampleSet
  <2>3. phase \in 0 .. Decimation - 1
    BY <2>1 DEF Types
  <2> QED BY <2>1, <2>2, <2>3, InputFacts, SamplesAssumption
<1>3. pending = <<>>
  BY <1>1 DEF IInv, ResamplerInv
<1>4. EmergedLen' = Len(dump) + Len(EmptyLine)
  BY <1>1, <1>2 DEF EmergedLen
<1>5. Input' = Input
  BY <1>1 DEF Input
<1>6. \A k \in 1 .. Len(dump) + Len(EmptyLine) : Input'[k] = (Input \o EmptyLine)[k]
  <2> DEFINE all == Input \o EmptyLine
  <2>1. Joins(all, Input, EmptyLine)
    BY DEF Joins
  <2> HIDE DEF all
  <2>2. \A k \in 1 .. Len(Input) : all[k] = Input[k]
    BY <1>2, <2>1, JoinsFacts
  <2>3. \A k \in 1 .. Len(dump) + Len(EmptyLine) : k \in 1 .. Len(Input)
    BY <1>2
  <2> QED BY <1>5, <2>2, <2>3 DEF all
<1>7. pc \notin {"last", "done"} /\ pc' \in {"feed", "last"} /\ pc' # "feed"
  BY <1>1
<1>8. Types /\ ResamplerInv /\ EmptyLine \in Seq(SampleSet) /\ Execute(EmptyLine)
  BY <1>1, <1>2 DEF IInv
<1> QED BY <1>3, <1>4, <1>6, <1>7, <1>8, ExecuteStep

LEMMA FlushKeepsInv ==
  ASSUME IInv, Flush, ahead' = ahead
  PROVE  IInv'
<1> USE DEF mediumVars, radioVars, syncVars, clockVars
<1>1. /\ pc = "flush" /\ pc' = "last" /\ Execute(EmptyLine)
      /\ UNCHANGED <<stop, transferStop, air, closed, rpos, lost, dump, sync, delivered,
                     subsecond, elapsed, quiet>>
  BY DEF Flush
<1>2. /\ EmptyLine \in Seq(SampleSet) /\ Len(EmptyLine) = Delay /\ Delay \in Nat
      /\ Len(dump) \in Nat /\ Input \in Seq(SampleSet) /\ Len(Input) = Delay + Len(dump)
      /\ phase \in 0 .. Decimation - 1
  <2>1. Types
    BY DEF IInv
  <2>2. EmptyLine \in Seq(SampleSet) /\ Len(EmptyLine) = Delay
    BY SamplesAssumption DEF EmptyLine, SampleSet
  <2>3. phase \in 0 .. Decimation - 1
    BY <2>1 DEF Types
  <2> QED BY <2>1, <2>2, <2>3, InputFacts, SamplesAssumption
<1>3. /\ ResamplerInv'
      /\ Taken' = Taken /\ Taken \in Nat /\ \A j \in 1 .. Taken : At(j)' = At(j)
      /\ line' \in Seq(SampleSet) /\ Len(line') = Delay /\ phase' \in 0 .. Decimation - 1
      /\ pending' \in Seq(SampleSet) /\ Len(pending') = OutputLen(phase, Len(EmptyLine))
  BY FlushStep
<1>4. SyncInv' /\ DeliveredInv'
  BY <1>1, <1>3, TakenUnchanged DEF IInv
<1>5. FlushFits => Len(pending') <= FrameSize + Delay
  BY <1>2, <1>3, FlushLength
<1>6. Types'
  BY <1>1, <1>3, <1>5 DEF IInv, Types
<1>7. MediumInv' /\ ClockInv'
  BY <1>1, MediumUntouched, ClockUntouched DEF IInv, Types
<1> QED BY <1>3, <1>4, <1>6, <1>7 DEF IInv

(* The samples that the radio gives are the next ones of the medium. *)
LEMMA BlockFacts ==
  ASSUME NEW n \in Readable, IInv
  PROVE  LET in == SubSeq(air, rpos + 1, rpos + n)
         IN  /\ in \in Seq(SampleSet) /\ Len(in) = n
             /\ \A k \in 1 .. n : rpos + k \in 1 .. Len(air) /\ in[k] = air[rpos + k]
<1>1. /\ n \in Nat /\ rpos \in Nat /\ Len(air) \in Nat /\ rpos + n <= Len(air)
      /\ air \in Seq(SampleSet)
  BY ReadableFacts DEF IInv, Types
<1>2. \A k \in rpos + 1 .. rpos + n : k \in 1 .. Len(air)
  BY <1>1
<1>3. \A k \in rpos + 1 .. rpos + n : air[k] \in SampleSet
  BY <1>1, <1>2, ElementOfSeq
<1>4. /\ SubSeq(air, rpos + 1, rpos + n) \in Seq(SampleSet)
      /\ Len(SubSeq(air, rpos + 1, rpos + n)) = n
      /\ \A k \in 1 .. (rpos + n) - (rpos + 1) + 1 :
           SubSeq(air, rpos + 1, rpos + n)[k] = air[(rpos + 1) + k - 1]
  BY <1>1, <1>3, SubSeqProperties
<1>5. \A k \in 1 .. n : /\ k \in 1 .. (rpos + n) - (rpos + 1) + 1
                        /\ (rpos + 1) + k - 1 = rpos + k /\ rpos + k \in rpos + 1 .. rpos + n
  BY <1>1
<1> QED BY <1>2, <1>4, <1>5

(* A block that goes through the filter. *)
LEMMA BlockStep ==
  ASSUME IInv, NEW n \in Readable, ReceiveBlock(n)
  PROVE  LET in == SubSeq(air, rpos + 1, rpos + n)
         IN  /\ dump' \in Seq(SampleSet) /\ Len(dump') = Len(dump) + n
             /\ \A k \in 1 .. Len(dump) : dump'[k] = dump[k]
             /\ \A k \in 1 .. n : dump'[Len(dump) + k] = in[k]
             /\ ResamplerInv'
             /\ Taken' = Taken /\ Taken \in Nat /\ \A j \in 1 .. Taken : At(j)' = At(j)
             /\ line' \in Seq(SampleSet) /\ Len(line') = Delay /\ phase' \in 0 .. Decimation - 1
             /\ pending' \in Seq(SampleSet) /\ Len(pending') = OutputLen(phase, Len(in))
<1> USE DEF mediumVars, syncVars, clockVars
<1> DEFINE in == SubSeq(air, rpos + 1, rpos + n)
<1>1. /\ pc = "read" /\ pc' = "feed" /\ dump' = dump \o in /\ Execute(in) /\ rpos' = rpos + n
      /\ UNCHANGED <<stop, transferStop, air, closed, lost, sync, delivered,
                     subsecond, elapsed, quiet>>
  BY DEF ReceiveBlock
<1>2. /\ in \in Seq(SampleSet) /\ Len(in) = n
      /\ \A k \in 1 .. n : rpos + k \in 1 .. Len(air) /\ in[k] = air[rpos + k]
  BY BlockFacts
<1>3. /\ n \in Nat /\ n <= SamplesSize /\ rpos \in Nat /\ Len(air) \in Nat
      /\ rpos + n <= Len(air) /\ air \in Seq(SampleSet) /\ dump \in Seq(SampleSet)
      /\ Len(dump) \in Nat /\ Len(dump) <= rpos
      /\ Input \in Seq(SampleSet) /\ Len(Input) = Delay + Len(dump) /\ Delay \in Nat
      /\ phase \in 0 .. Decimation - 1
      /\ EmptyLine \in Seq(SampleSet) /\ Len(EmptyLine) = Delay
  <2>1. EmptyLine \in Seq(SampleSet) /\ Len(EmptyLine) = Delay
    BY SamplesAssumption DEF EmptyLine, SampleSet
  <2> QED BY <2>1, ReadableFacts, InputFacts, SamplesAssumption DEF IInv, Types
<1> HIDE DEF in
<1>4. Joins(dump', dump, in)
  BY <1>1 DEF Joins
<1>5. /\ dump' \in Seq(SampleSet) /\ Len(dump') = Len(dump) + n
      /\ \A k \in 1 .. Len(dump) : dump'[k] = dump[k]
      /\ \A k \in 1 .. n : dump'[Len(dump) + k] = in[k]
  <2>1. dump \in Seq(SampleSet) /\ in \in Seq(SampleSet)
    BY <1>2, <1>3
  <2>2. /\ dump' \in Seq(SampleSet) /\ Len(dump') = Len(dump) + Len(in)
        /\ \A k \in 1 .. Len(dump) : dump'[k] = dump[k]
        /\ \A k \in 1 .. Len(in) : dump'[Len(dump) + k] = in[k]
    BY <1>4, <2>1, JoinsFacts
  <2> QED BY <1>2, <2>2
<1>6. Input' = Input \o in
  <2>1. EmptyLine \in Seq(SampleSet) /\ dump \in Seq(SampleSet) /\ in \in Seq(SampleSet)
    BY <1>2, <1>3
  <2>2. Joins(Input, EmptyLine, dump) /\ Joins(Input', EmptyLine, dump')
    BY DEF Joins, Input
  <2>3. Joins(Input', Input, in)
    BY <1>4, <2>1, <2>2, JoinsAssociative
  <2> QED BY <2>3 DEF Joins
<1>7. pending = <<>>
  BY <1>1 DEF IInv, ResamplerInv
<1>8. EmergedLen' = Len(dump) + Len(in)
  BY <1>1, <1>2, <1>5 DEF EmergedLen
<1>9. pc \notin {"last", "done"} /\ pc' \in {"feed", "last"}
  BY <1>1
<1>10. Types /\ ResamplerInv /\ in \in Seq(SampleSet) /\ Execute(in)
  BY <1>1, <1>2 DEF IInv
<1>11. \A k \in 1 .. Len(dump) + Len(in) : Input'[k] = (Input \o in)[k]
  BY <1>6
<1>12. pc' = "feed" => Input' = Input \o in /\ Len(dump') = Len(dump) + Len(in)
  BY <1>2, <1>5, <1>6
<1>13. /\ ResamplerInv'
       /\ Taken' = Taken /\ Taken \in Nat /\ \A j \in 1 .. Taken : At(j)' = At(j)
       /\ line' \in Seq(SampleSet) /\ Len(line') = Delay /\ phase' \in 0 .. Decimation - 1
       /\ pending' \in Seq(SampleSet) /\ Len(pending') = OutputLen(phase, Len(in))
  BY <1>7, <1>8, <1>9, <1>10, <1>11, <1>12, ExecuteStep
<1> QED BY <1>5, <1>13 DEF in

LEMMA ReceiveBlockKeepsInv ==
  ASSUME IInv, NEW n \in Readable, ReceiveBlock(n), ahead' = ahead
  PROVE  IInv'
<1> USE DEF mediumVars, syncVars, clockVars
<1> DEFINE in == SubSeq(air, rpos + 1, rpos + n)
<1>1. /\ pc = "read" /\ pc' = "feed" /\ dump' = dump \o in /\ Execute(in) /\ rpos' = rpos + n
      /\ UNCHANGED <<stop, transferStop, air, closed, lost, sync, delivered,
                     subsecond, elapsed, quiet>>
  BY DEF ReceiveBlock
<1>2. /\ in \in Seq(SampleSet) /\ Len(in) = n
      /\ \A k \in 1 .. n : rpos + k \in 1 .. Len(air) /\ in[k] = air[rpos + k]
  BY BlockFacts
<1>3. /\ n \in Nat /\ n <= SamplesSize /\ rpos \in Nat /\ Len(air) \in Nat
      /\ rpos + n <= Len(air) /\ air \in Seq(SampleSet) /\ dump \in Seq(SampleSet)
      /\ Len(dump) \in Nat /\ Len(dump) <= rpos
      /\ Input \in Seq(SampleSet) /\ Len(Input) = Delay + Len(dump) /\ Delay \in Nat
      /\ phase \in 0 .. Decimation - 1
      /\ EmptyLine \in Seq(SampleSet) /\ Len(EmptyLine) = Delay
  <2>1. EmptyLine \in Seq(SampleSet) /\ Len(EmptyLine) = Delay
    BY SamplesAssumption DEF EmptyLine, SampleSet
  <2> QED BY <2>1, ReadableFacts, InputFacts, SamplesAssumption DEF IInv, Types
<1>4. /\ dump' \in Seq(SampleSet) /\ Len(dump') = Len(dump) + n
      /\ \A k \in 1 .. Len(dump) : dump'[k] = dump[k]
      /\ \A k \in 1 .. n : dump'[Len(dump) + k] = in[k]
  BY BlockStep
<1>5. /\ ResamplerInv'
      /\ Taken' = Taken /\ Taken \in Nat /\ \A j \in 1 .. Taken : At(j)' = At(j)
      /\ line' \in Seq(SampleSet) /\ Len(line') = Delay /\ phase' \in 0 .. Decimation - 1
      /\ pending' \in Seq(SampleSet) /\ Len(pending') = OutputLen(phase, Len(in))
  BY BlockStep
<1> HIDE DEF in
<1>6. SyncInv' /\ DeliveredInv'
  BY <1>1, <1>5, TakenUnchanged DEF IInv
<1>7. Len(pending') <= FrameSize + Delay
  <2>1. n * Interpolation <= FrameSize * Decimation
    <3> DEFINE whole == FrameSize * Decimation
    <3>1. whole \in Nat
      BY SamplesAssumption, ReceiveAssumption
    <3>2. SamplesSize \in Nat /\ SamplesSize * Interpolation <= whole
      <4> HIDE DEF whole
      <4>1. whole \div Interpolation \in Nat /\ (whole \div Interpolation) * Interpolation <= whole
        BY <3>1, SamplesAssumption, Division
      <4> QED BY <4>1 DEF SamplesSize, whole
    <3> HIDE DEF whole
    <3>3. n * Interpolation <= SamplesSize * Interpolation
      BY <1>3, <3>2, SamplesAssumption
    <3>4. n * Interpolation \in Nat /\ SamplesSize * Interpolation \in Nat
      BY <1>3, <3>2, SamplesAssumption
    <3>5. n * Interpolation <= whole
      BY <3>1, <3>2, <3>3, <3>4
    <3> QED BY <3>5 DEF whole
  <2>2. FrameSize \in Nat
    BY ReceiveAssumption
  <2>3. OutputLen(phase, n) \in Nat /\ OutputLen(phase, n) <= FrameSize
    BY <1>3, <2>1, <2>2, OutputBound
  <2> QED BY <1>2, <1>3, <1>5, <2>2, <2>3
<1>8. rpos' \in 0 .. Len(air) /\ Len(dump') <= rpos' /\ rpos' \in Nat
  BY <1>1, <1>3, <1>4
<1>9. Types'
  BY <1>1, <1>4, <1>5, <1>7, <1>8 DEF IInv, Types
<1>10. ClockInv'
  BY <1>1, ClockUntouched DEF IInv
<1>11. MediumInv'
  <2>1. /\ InOrder(dump) /\ InOrder(air) /\ InOrder(ahead)
        /\ \A a \in DOMAIN dump : \A b \in rpos + 1 .. Len(air) : Ordered(dump[a], air[b])
        /\ \A a \in DOMAIN dump : \A b \in DOMAIN ahead : Ordered(dump[a], ahead[b])
        /\ \A a \in DOMAIN air : \A b \in DOMAIN ahead : Ordered(air[a], ahead[b])
    BY DEF IInv, MediumInv
  <2>2. DOMAIN air = 1 .. Len(air) /\ DOMAIN dump = 1 .. Len(dump) /\ DOMAIN in = 1 .. n
    BY <1>2, <1>3
  <2>3. InOrder(in)
    <3> SUFFICES ASSUME NEW a \in 1 .. n, NEW b \in 1 .. n, a < b
                 PROVE  Ordered(in[a], in[b])
      BY <2>2 DEF InOrder
    <3>1. rpos + a < rpos + b
      BY <1>3
    <3> QED BY <1>2, <2>1, <2>2, <3>1 DEF InOrder
  <2>4. ASSUME NEW a \in DOMAIN dump, NEW b \in DOMAIN in PROVE Ordered(dump[a], in[b])
    <3>1. b \in 1 .. n /\ rpos + b \in rpos + 1 .. Len(air)
      BY <1>3, <2>2
    <3> QED BY <1>2, <2>1, <3>1
  <2>5. InOrder(dump')
    <3>1. InOrder(dump \o in)
      BY <1>2, <1>3, <2>1, <2>3, <2>4, InOrderConcat
    <3> QED BY <1>1, <3>1
  (* A sample of the dump is one of before or one of the block. *)
  <2>6. ASSUME NEW a \in DOMAIN dump'
        PROVE  \/ a \in DOMAIN dump /\ dump'[a] = dump[a]
               \/ \E k \in 1 .. n : dump'[a] = air[rpos + k] /\ rpos + k \in DOMAIN air
    <3>1. a \in 1 .. Len(dump) + n
      BY <1>4
    <3>2. CASE a <= Len(dump)
      <4>1. a \in 1 .. Len(dump)
        BY <1>3, <3>1, <3>2
      <4> QED BY <1>4, <2>2, <4>1
    <3>3. CASE ~(a <= Len(dump))
      <4>1. a - Len(dump) \in 1 .. n /\ Len(dump) + (a - Len(dump)) = a
        BY <1>3, <3>1, <3>3
      <4> QED BY <1>2, <1>4, <2>2, <4>1
    <3> QED BY <3>2, <3>3
  <2>7. ASSUME NEW a \in DOMAIN dump', NEW b \in rpos' + 1 .. Len(air)
        PROVE  Ordered(dump'[a], air[b])
    <3>1. /\ b \in rpos + 1 .. Len(air) /\ b \in DOMAIN air
          /\ \A k \in 1 .. n : rpos + k < b
      BY <1>1, <1>3, <2>2
    <3> QED BY <2>1, <2>6, <3>1 DEF InOrder
  <2>8. ASSUME NEW a \in DOMAIN dump', NEW b \in DOMAIN ahead
        PROVE  Ordered(dump'[a], ahead[b])
    BY <2>1, <2>6
  <2>9. InOrder(dump)' /\ InOrder(air)' /\ InOrder(ahead)'
    BY <1>1, <2>1, <2>5 DEF InOrder
  <2> QED BY <1>1, <2>1, <2>7, <2>8, <2>9 DEF MediumInv
<1> QED BY <1>5, <1>6, <1>9, <1>10, <1>11 DEF IInv
-----------------------------------------------------------------------------
(* The synchronizer takes a sample. *)

LEMMA SampleKinds ==
  ASSUME NEW s \in SampleSet, StartsFrame(s)
  PROVE  \E i \in DOMAIN Frames : s = Sample(i, 1)
<1>1. Len(Zero) = 0 /\ Len(Noise) = 1 /\ Len(s) = 3 /\ s[3] = 1
  BY DEF Zero, Noise, StartsFrame
<1>2. PICK i \in DOMAIN Frames, k \in Nat \ {0} : s = Sample(i, k)
  BY <1>1 DEF SampleSet, FrameSample
<1>3. Sample(i, k)[3] = k
  BY DEF Sample
<1> QED BY <1>1, <1>2, <1>3

(* A frame that is still intact with this sample is a frame of the medium,   *)
(* and the sample is its next.                                              *)
LEMMA SyncSampleFacts ==
  ASSUME Types, SyncInv, NEW s \in SampleSet, NEW f \in SyncSample(s)
  PROVE  /\ f \in OpenFrames \cup {Seeking}
         /\ f # Seeking /\ f.intact =>
              \E i \in DOMAIN Frames :
                /\ f.header = Header(Frames[i][1], i - 1) /\ f.payload = Frames[i][2]
                /\ f.k \in 1 .. FrameLen(i) /\ s = Sample(i, f.k)
                /\ \/ f.k = 1
                   \/ /\ sync # Seeking /\ sync.intact /\ f.k = sync.k + 1
                      /\ EndsAt(i, sync.k, Taken)
<1> DEFINE Next1(i) ==
             /\ f.header = Header(Frames[i][1], i - 1) /\ f.payload = Frames[i][2]
             /\ f.k \in 1 .. FrameLen(i) /\ s = Sample(i, f.k)
             /\ \/ f.k = 1
                \/ /\ sync # Seeking /\ sync.intact /\ f.k = sync.k + 1
                   /\ EndsAt(i, sync.k, Taken)
<1>1. CASE sync # Seeking
  <2>1. sync \in OpenFrames
    BY <1>1 DEF Types
  <2>2. f = [sync EXCEPT !.k = @ + 1,
                         !.intact = @ /\ s = <<sync.header, sync.payload, sync.k + 1>>]
    BY <1>1 DEF SyncSample
  <2>3. /\ f.header = sync.header /\ f.payload = sync.payload /\ f.k = sync.k + 1
        /\ f.intact = (sync.intact /\ s = <<sync.header, sync.payload, sync.k + 1>>)
        /\ f \in OpenFrames
    <3> DEFINE headers == {Noise} \cup {Header(Frames[i][1], i - 1) : i \in DOMAIN Frames}
               intact == sync.intact /\ s = <<sync.header, sync.payload, sync.k + 1>>
    <3>1. sync \in [header : headers, payload : Seq(Nat), k : Nat, intact : BOOLEAN]
      BY <2>1 DEF OpenFrames
    <3>2. intact \in BOOLEAN
      OBVIOUS
    <3>3. f = [sync EXCEPT !.k = sync.k + 1, !.intact = intact]
      BY <2>2, <3>1
    <3> HIDE DEF headers, intact
    <3>4. f = [header |-> sync.header, payload |-> sync.payload, k |-> sync.k + 1,
               intact |-> intact]
      BY <3>1, <3>2, <3>3
    <3>5. f \in [header : headers, payload : Seq(Nat), k : Nat, intact : BOOLEAN]
      BY <3>1, <3>2, <3>4
    <3> QED BY <3>4, <3>5 DEF OpenFrames, headers, intact
  <2>4. ASSUME f.intact PROVE \E i \in DOMAIN Frames : Next1(i)
    <3>1. sync.intact /\ s = <<sync.header, sync.payload, sync.k + 1>>
      BY <2>3, <2>4
    <3>2. PICK i \in DOMAIN Frames :
            /\ sync.header = Header(Frames[i][1], i - 1) /\ sync.payload = Frames[i][2]
            /\ sync.k \in 1 .. FrameLen(i) - 1
            /\ EndsAt(i, sync.k, Taken)
      BY <1>1, <3>1 DEF SyncInv
    <3>3. sync.k + 1 \in 1 .. FrameLen(i)
      BY <3>2, FrameFacts
    <3>4. s = Sample(i, f.k)
      BY <2>3, <3>1, <3>2 DEF Sample
    <3> QED BY <1>1, <2>3, <3>1, <3>2, <3>3, <3>4
  <2> HIDE DEF Next1
  <2>5. f \in OpenFrames /\ (f.intact => \E i \in DOMAIN Frames : Next1(i))
    BY <2>3, <2>4
  <2> QED BY <2>5 DEF Next1
<1>2. CASE sync = Seeking /\ StartsFrame(s)
  <2>1. PICK i \in DOMAIN Frames : s = Sample(i, 1)
    BY <1>2, SampleKinds
  <2>2. f = Open(s[1], s[2])
    BY <1>2 DEF SyncSample
  <2>3. s[1] = Header(Frames[i][1], i - 1) /\ s[2] = Frames[i][2]
    BY <2>1 DEF Sample
  <2>4. /\ f.header = Header(Frames[i][1], i - 1) /\ f.payload = Frames[i][2]
        /\ f.k = 1 /\ f \in OpenFrames
    BY <2>2, <2>3, FrameFacts DEF Open, OpenFrames
  <2>5. 1 \in 1 .. FrameLen(i)
    BY FrameFacts
  <2> QED BY <2>1, <2>4, <2>5
<1>3. CASE sync = Seeking /\ ~StartsFrame(s)
  <2>1. f \in {Seeking, FalseDetection}
    BY <1>3 DEF SyncSample
  <2>2. FalseDetection \in OpenFrames /\ FalseDetection.intact = FALSE
    <3>1. <<>> \in Seq(Nat) /\ Noise \in {Noise} \cup {Header(Frames[i][1], i - 1) : i \in DOMAIN Frames}
      OBVIOUS
    <3>2. FalseDetection.intact = FALSE
      BY DEF FalseDetection, Open
    <3>3. FalseDetection \in OpenFrames
      BY <3>1 DEF FalseDetection, Open, OpenFrames
    <3> QED BY <3>2, <3>3
  <2> QED BY <2>1, <2>2
<1> QED BY <1>1, <1>2, <1>3

LEMMA InputInOrder ==
  ASSUME Types, MediumInv
  PROVE  InOrder(Input)
<1>1. EmptyLine \in Seq(SampleSet) /\ dump \in Seq(SampleSet)
  BY SamplesAssumption DEF EmptyLine, SampleSet, Types
<1>2. \A a \in DOMAIN EmptyLine : EmptyLine[a] = Zero
  BY DEF EmptyLine
<1>3. InOrder(EmptyLine) /\ InOrder(dump)
  BY <1>2, OrderedFacts DEF InOrder, MediumInv
<1>4. \A a \in DOMAIN EmptyLine, b \in DOMAIN dump : Ordered(EmptyLine[a], dump[b])
  BY <1>2, OrderedFacts
<1> QED BY <1>1, <1>3, <1>4, InOrderConcat DEF Input

(* A frame that ends before another one begins was sent before it. *)
LEMMA EarlierFrame ==
  ASSUME Types, MediumInv, NEW a \in DOMAIN Frames, NEW b \in DOMAIN Frames,
         NEW d \in Nat, NEW e \in Nat,
         EndsAt(a, FrameLen(a), d), EndsAt(b, FrameLen(b), e),
         d <= e - FrameLen(b), e <= OutputLen(0, EmergedLen)
  PROVE  a < b
<1> DEFINE first == e - FrameLen(b) + 1
           p == Position(0, d)
           q == Position(0, first)
<1>1. /\ FrameLen(a) \in Nat /\ FrameLen(a) > 1 /\ FrameLen(b) \in Nat /\ FrameLen(b) > 1
      /\ FrameLen(a) <= d
  BY FrameFacts DEF EndsAt
<1>2. d \in 1 .. OutputLen(0, EmergedLen) /\ first \in 1 .. OutputLen(0, EmergedLen) /\ d <= first
      /\ first \in Nat
  <2>1. EmergedLen \in Nat
    BY InputFacts
  <2>2. OutputLen(0, EmergedLen) \in Nat
    BY <2>1, OutputMonotone
  <2> QED BY <1>1, <2>2
<1>3. At(d) = Sample(a, FrameLen(a))
  <2>1. FrameLen(a) \in 1 .. FrameLen(a) /\ d - FrameLen(a) + FrameLen(a) = d
    BY <1>1
  <2>2. At(d - FrameLen(a) + FrameLen(a)) = Sample(a, FrameLen(a))
    BY <2>1 DEF EndsAt
  <2> QED BY <2>1, <2>2
<1>4. At(first) = Sample(b, 1)
  <2>1. 1 \in 1 .. FrameLen(b)
    BY <1>1
  <2> QED BY <2>1 DEF EndsAt
<1>5. p \in 1 .. EmergedLen /\ q \in 1 .. EmergedLen
  <2>1. EmergedLen \in Nat /\ 0 \in 0 .. Decimation - 1
    BY InputFacts, SamplesAssumption
  <2> QED BY <1>2, <2>1, PositionInBlock
<1>6. p <= q
  BY <1>2, PositionMonotone
<1> HIDE DEF p, q, first
<1>7. p \in DOMAIN Input /\ q \in DOMAIN Input /\ p \in Nat /\ q \in Nat
  <2>1. DOMAIN Input = 1 .. Len(Input) /\ EmergedLen \in Nat /\ EmergedLen <= Len(Input)
        /\ Len(Input) \in Nat
    BY InputFacts
  <2> QED BY <1>5, <2>1
<1>8. Input[p] = Sample(a, FrameLen(a)) /\ Input[q] = Sample(b, 1)
  BY <1>3, <1>4 DEF At, p, q
<1>9. CASE p = q
  <2>1. Sample(a, FrameLen(a)) = Sample(b, 1)
    BY <1>8, <1>9
  <2>2. FrameLen(a) = 1
    BY <1>1, <2>1, SampleFacts
  <2> QED BY <1>1, <2>2
<1>10. CASE p < q
  <2>1. Ordered(Sample(a, FrameLen(a)), Sample(b, 1))
    BY <1>7, <1>8, <1>10, InputInOrder DEF InOrder
  <2>2. a < b \/ (a = b /\ FrameLen(a) <= 1)
    BY <1>1, <2>1 DEF Ordered
  <2> QED BY <1>1, <2>2
<1> QED BY <1>6, <1>7, <1>9, <1>10

(* A sample that is the next of the stream, or a zero after its end. *)
LEMMA TakeKeepsInv ==
  ASSUME IInv, NEW s \in SampleSet, Take(s), dump' = dump, subsecond' = subsecond,
         Taken \in Nat, Taken' <= OutputLen(0, EmergedLen),
         \/ Taken' = Taken + 1 /\ s = At(Taken + 1)
         \/ Taken' = Taken /\ s = Zero
  PROVE  /\ sync' \in OpenFrames \cup {Seeking} /\ delivered' \in Seq(Seq(Nat))
         /\ SyncInv' /\ DeliveredInv' /\ ClockInv' /\ elapsed' \in 0 .. Timeout + 1
<1> DEFINE Follows(f, i) ==
             /\ f.header = Header(Frames[i][1], i - 1) /\ f.payload = Frames[i][2]
             /\ f.k \in 1 .. FrameLen(i)
             /\ Taken' = Taken + 1 /\ EndsAt(i, f.k, Taken + 1)
             /\ f.k = 1 \/ (sync # Seeking /\ sync.intact /\ f.k = sync.k + 1)
<1>1. PICK f \in SyncSample(s) :
        \/ /\ ~HeaderRefused(f) /\ ~Complete(f)
           /\ sync' = f
           /\ UNCHANGED <<delivered, elapsed, quiet>>
        \/ /\ HeaderRefused(f)
           /\ sync' = Seeking
           /\ FrameReceived(f.header, FALSE, <<>>, FALSE)
        \/ /\ ~HeaderRefused(f) /\ Complete(f)
           /\ sync' = Seeking
           /\ FrameReceived(f.header, TRUE, f.payload, f.intact)
  BY DEF Take
<1>2. Types /\ SyncInv /\ DeliveredInv /\ ClockInv /\ MediumInv
  BY DEF IInv
<1>3. f \in OpenFrames \cup {Seeking}
  BY <1>2, SyncSampleFacts
<1>4. \A i, k, e : EndsAt(i, k, e)' <=> EndsAt(i, k, e)
  BY DEF EndsAt, At, Input
<1>5. ASSUME f # Seeking, f.intact
      PROVE  \E i \in DOMAIN Frames : Follows(f, i)
  <2>1. PICK i \in DOMAIN Frames :
          /\ f.header = Header(Frames[i][1], i - 1) /\ f.payload = Frames[i][2]
          /\ f.k \in 1 .. FrameLen(i) /\ s = Sample(i, f.k)
          /\ \/ f.k = 1
             \/ /\ sync # Seeking /\ sync.intact /\ f.k = sync.k + 1
                /\ EndsAt(i, sync.k, Taken)
    BY <1>2, <1>5, SyncSampleFacts
  <2>2. f.k \in Nat /\ FrameLen(i) \in Nat
    BY <2>1, FrameFacts
  <2>3. Taken' = Taken + 1 /\ At(Taken + 1) = Sample(i, f.k)
    <3>1. s # Zero
      BY <2>1, <2>2, SampleFacts
    <3> QED BY <2>1, <3>1
  <2>4. EndsAt(i, f.k, Taken + 1)
    <3>1. CASE f.k = 1
      <4>1. 1 <= Taken + 1
        OBVIOUS
      <4>2. \A m \in 1 .. 1 : m = 1 /\ Taken + 1 - 1 + m = Taken + 1
        OBVIOUS
      <4> QED BY <2>3, <3>1, <4>1, <4>2 DEF EndsAt
    <3>2. CASE f.k # 1
      <4>1. sync.k = f.k - 1 /\ EndsAt(i, sync.k, Taken)
        <5>1. f.k = sync.k + 1 /\ EndsAt(i, sync.k, Taken) /\ sync # Seeking
          BY <2>1, <3>2
        <5>2. sync.k \in Nat
          BY <1>2, <5>1 DEF Types, OpenFrames
        <5> QED BY <5>1, <5>2
      <4>2. f.k <= Taken + 1
        BY <2>2, <4>1 DEF EndsAt
      <4>3. ASSUME NEW m \in 1 .. f.k PROVE At(Taken + 1 - f.k + m) = Sample(i, m)
        <5>1. CASE m = f.k
          <6>1. Taken + 1 - f.k + m = Taken + 1
            BY <2>2, <5>1
          <6> QED BY <2>3, <5>1, <6>1
        <5>2. CASE m # f.k
          <6>1. m \in 1 .. sync.k /\ Taken + 1 - f.k + m = Taken - sync.k + m
            BY <2>2, <4>1, <5>2
          <6> QED BY <4>1, <6>1 DEF EndsAt
        <5> QED BY <5>1, <5>2
      <4> QED BY <2>2, <4>2, <4>3 DEF EndsAt
    <3> QED BY <3>1, <3>2
  <2> QED BY <2>1, <2>3, <2>4
<1>6. SyncInv'
  <2> SUFFICES ASSUME sync' # Seeking, sync'.intact
               PROVE  \E i \in DOMAIN Frames :
                        /\ sync'.header = Header(Frames[i][1], i - 1)
                        /\ sync'.payload = Frames[i][2]
                        /\ sync'.k \in 1 .. FrameLen(i) - 1
                        /\ EndsAt(i, sync'.k, Taken')
    BY <1>4 DEF SyncInv
  <2>1. sync' = f /\ ~Complete(f)
    BY <1>1
  <2>2. PICK i \in DOMAIN Frames : Follows(f, i)
    BY <1>5, <2>1
  <2>3. f.k # FrameLen(i)
    BY <2>1, <2>2 DEF Complete, FrameLen
  <2>4. f.k \in 1 .. FrameLen(i) - 1
    BY <2>2, <2>3, FrameFacts
  <2> QED BY <2>1, <2>2, <2>4
<1>7. ClockInv' /\ elapsed' \in 0 .. Timeout + 1
  <2>1. CASE UNCHANGED <<elapsed, quiet>>
    BY <1>2, <2>1, ClockUntouched DEF Types
  <2>2. CASE elapsed' = 0 /\ quiet' = 0
    BY <1>2, <2>2, ClockRestarts, ReceiveAssumption
  <2> QED BY <1>1, <2>1, <2>2 DEF FrameReceived
<1>8. /\ Len(delivered) \in Nat /\ DOMAIN delivered = 1 .. Len(delivered)
      /\ delivered \in Seq(Seq(Nat))
  BY <1>2 DEF Types
<1>9. PICK from \in [DOMAIN delivered -> Own], end \in [DOMAIN delivered -> Nat] :
        /\ \A i \in DOMAIN delivered :
             /\ delivered[i] = Frames[from[i]][2]
             /\ EndsAt(from[i], FrameLen(from[i]), end[i])
             /\ end[i] <= Taken
             /\ sync # Seeking /\ sync.intact => end[i] <= Taken - sync.k
        /\ \A i, j \in DOMAIN delivered : i < j => from[i] < from[j]
  BY <1>2 DEF DeliveredInv
(* The frames delivered before end before an open frame that is intact.     *)
<1>10. ASSUME f # Seeking, f.intact, NEW j \in DOMAIN delivered
       PROVE  end[j] <= Taken + 1 - f.k
  <2>1. PICK i \in DOMAIN Frames : Follows(f, i)
    BY <1>5, <1>10
  <2>2. end[j] \in Nat /\ end[j] <= Taken
    BY <1>9
  <2>3. CASE f.k = 1
    BY <2>2, <2>3
  <2>4. CASE sync # Seeking /\ sync.intact /\ f.k = sync.k + 1
    <3>1. sync.k \in Nat
      BY <1>2, <2>4 DEF Types, OpenFrames
    <3>2. end[j] <= Taken - sync.k
      BY <1>9, <2>4
    <3> QED BY <2>2, <2>4, <3>1, <3>2
  <2> QED BY <2>1, <2>3, <2>4
<1> HIDE DEF Follows
<1>11. CASE delivered' = delivered
  <2>1. ASSUME NEW i \in DOMAIN delivered
        PROVE  /\ end[i] <= Taken'
               /\ sync' # Seeking /\ sync'.intact => end[i] <= Taken' - sync'.k
    <3>1. end[i] \in Nat /\ end[i] <= Taken'
      BY <1>9
    <3>2. ASSUME sync' # Seeking, sync'.intact PROVE end[i] <= Taken' - sync'.k
      <4>1. sync' = f
        BY <1>1, <3>2
      <4>2. Taken' = Taken + 1
        BY <1>5, <3>2, <4>1 DEF Follows
      <4>3. f # Seeking /\ f.intact
        BY <3>2, <4>1
      <4>4. end[i] <= Taken + 1 - f.k
        BY <1>10, <4>3
      <4>5. f.k \in Nat
        BY <1>3, <4>3 DEF OpenFrames
      <4> QED BY <3>1, <4>1, <4>2, <4>4, <4>5
    <3> QED BY <3>1, <3>2
  <2>2. DeliveredInv'
    <3>1. \E from1 \in [DOMAIN delivered' -> Own], end1 \in [DOMAIN delivered' -> Nat] :
            /\ \A i \in DOMAIN delivered' :
                 /\ delivered'[i] = Frames[from1[i]][2]
                 /\ EndsAt(from1[i], FrameLen(from1[i]), end1[i])
                 /\ end1[i] <= Taken'
                 /\ sync' # Seeking /\ sync'.intact => end1[i] <= Taken' - sync'.k
            /\ \A i, j \in DOMAIN delivered' : i < j => from1[i] < from1[j]
      BY <1>9, <1>11, <2>1
    <3> QED BY <1>4, <3>1 DEF DeliveredInv
  <2> QED BY <1>1, <1>3, <1>6, <1>7, <1>8, <1>11, <2>2
<1>12. CASE /\ Complete(f) /\ f.intact /\ f.header[1] = Id /\ sync' = Seeking
            /\ delivered' = Append(delivered, f.payload)
  <2> DEFINE n == Len(delivered)
  <2>1. f # Seeking /\ f.k = HeaderLen + Len(f.payload)
    BY <1>12 DEF Complete
  <2>2. PICK own \in DOMAIN Frames : Follows(f, own)
    BY <1>5, <1>12, <2>1
  <2>3. /\ f.k = FrameLen(own) /\ f.payload = Frames[own][2] /\ Taken' = Taken + 1
        /\ EndsAt(own, FrameLen(own), Taken + 1) /\ FrameLen(own) \in Nat
        /\ f.payload \in Seq(Nat)
    BY <2>1, <2>2, FrameFacts DEF Follows, FrameLen
  <2>4. own \in Own
    BY <1>12, <2>2 DEF Follows, Own, Header
  <2>5. /\ delivered' \in Seq(Seq(Nat)) /\ DOMAIN delivered' = 1 .. n + 1
        /\ \A i \in 1 .. n : delivered'[i] = delivered[i]
        /\ delivered'[n + 1] = f.payload
    BY <1>8, <1>12, <2>3
  <2>6. ASSUME NEW j \in DOMAIN delivered PROVE from[j] < own
    <3>1. end[j] <= Taken + 1 - FrameLen(own)
      BY <1>10, <1>12, <2>1, <2>3
    <3>2. from[j] \in DOMAIN Frames /\ end[j] \in Nat /\ Taken + 1 \in Nat
      BY <1>9 DEF Own
    <3>3. Taken + 1 <= OutputLen(0, EmergedLen)
      BY <2>3
    <3>4. EndsAt(from[j], FrameLen(from[j]), end[j])
      BY <1>9
    <3> QED BY <1>2, <2>3, <3>1, <3>2, <3>3, <3>4, EarlierFrame
  <2> DEFINE from2 == [i \in 1 .. n + 1 |-> IF i = n + 1 THEN own ELSE from[i]]
             end2 == [i \in 1 .. n + 1 |-> IF i = n + 1 THEN Taken + 1 ELSE end[i]]
  <2> HIDE DEF n
  <2>7. \A i \in 1 .. n + 1 : i # n + 1 => i \in DOMAIN delivered /\ i \in 1 .. n
    BY <1>8 DEF n
  <2>8. from2 \in [1 .. n + 1 -> Own] /\ end2 \in [1 .. n + 1 -> Nat]
    BY <1>9, <2>4, <2>7
  <2>9. ASSUME NEW i \in 1 .. n + 1
        PROVE  /\ delivered'[i] = Frames[from2[i]][2]
               /\ EndsAt(from2[i], FrameLen(from2[i]), end2[i])
               /\ end2[i] <= Taken'
    <3>1. CASE i = n + 1
      BY <2>3, <2>5, <3>1
    <3>2. CASE i # n + 1
      <4>1. i \in DOMAIN delivered /\ i \in 1 .. n /\ from2[i] = from[i] /\ end2[i] = end[i]
        BY <2>7, <3>2
      <4>2. end[i] \in Nat /\ end[i] <= Taken + 1
        BY <1>9, <4>1
      <4> QED BY <1>9, <2>3, <2>5, <4>1, <4>2
    <3> QED BY <3>1, <3>2
  <2>10. ASSUME NEW i \in 1 .. n + 1, NEW j \in 1 .. n + 1, i < j
         PROVE  from2[i] < from2[j]
    <3>1. i # n + 1 /\ from2[i] = from[i] /\ i \in DOMAIN delivered
      <4>1. n \in Nat
        BY <1>8 DEF n
      <4>2. i # n + 1
        BY <2>10, <4>1
      <4> QED BY <2>7, <4>2
    <3>2. CASE j = n + 1
      BY <2>6, <3>1, <3>2
    <3>3. CASE j # n + 1
      BY <1>9, <2>7, <2>10, <3>1, <3>3
    <3> QED BY <3>2, <3>3
  <2> HIDE DEF from2, end2
  <2>11. DeliveredInv'
    <3>1. \E from1 \in [DOMAIN delivered' -> Own], end1 \in [DOMAIN delivered' -> Nat] :
            /\ \A i \in DOMAIN delivered' :
                 /\ delivered'[i] = Frames[from1[i]][2]
                 /\ EndsAt(from1[i], FrameLen(from1[i]), end1[i])
                 /\ end1[i] <= Taken'
                 /\ sync' # Seeking /\ sync'.intact => end1[i] <= Taken' - sync'.k
            /\ \A i, j \in DOMAIN delivered' : i < j => from1[i] < from1[j]
      <4>1. from2 \in [DOMAIN delivered' -> Own] /\ end2 \in [DOMAIN delivered' -> Nat]
        BY <2>5, <2>8
      <4>2. ~(sync' # Seeking)
        BY <1>12
      <4>3. /\ \A i \in DOMAIN delivered' :
                 /\ delivered'[i] = Frames[from2[i]][2]
                 /\ EndsAt(from2[i], FrameLen(from2[i]), end2[i])
                 /\ end2[i] <= Taken'
                 /\ sync' # Seeking /\ sync'.intact => end2[i] <= Taken' - sync'.k
            /\ \A i, j \in DOMAIN delivered' : i < j => from2[i] < from2[j]
        BY <2>5, <2>9, <2>10, <4>2
      <4> QED BY <4>1, <4>3, Zenon
    <3> QED BY <1>4, <3>1 DEF DeliveredInv
  <2> QED BY <1>6, <1>7, <1>12, <2>5, <2>11
<1>13. \/ delivered' = delivered
       \/ /\ Complete(f) /\ f.intact /\ f.header[1] = Id /\ sync' = Seeking
          /\ delivered' = Append(delivered, f.payload)
  BY <1>1 DEF FrameReceived
<1> QED BY <1>11, <1>12, <1>13

LEMMA TakenFacts ==
  ASSUME IInv
  PROVE  /\ OutputLen(0, EmergedLen) \in Nat /\ Len(pending) \in Nat /\ Taken \in Nat
         /\ Taken + Len(pending) = OutputLen(0, EmergedLen)
<1>1. EmergedLen \in Nat /\ Len(pending) \in Nat /\ Len(pending) <= OutputLen(0, EmergedLen)
  BY InputFacts DEF IInv, Types, ResamplerInv
<1>2. OutputLen(0, EmergedLen) \in Nat
  BY <1>1, OutputMonotone
<1> QED BY <1>1, <1>2 DEF Taken

(* The next sample of the stream is taken. *)
LEMMA FeedStep ==
  ASSUME IInv, Feed
  PROVE  /\ Taken' = Taken + 1 /\ Taken \in Nat /\ Taken + 1 <= OutputLen(0, EmergedLen)
         /\ Head(pending) = At(Taken + 1) /\ Head(pending) \in SampleSet
         /\ Take(Head(pending)) /\ EmergedLen' = EmergedLen /\ Input' = Input
<1> USE DEF mediumVars, radioVars, resamplerVars
<1>1. /\ pc \in {"feed", "last"} /\ pending # <<>> /\ pending' = Tail(pending)
      /\ Take(Head(pending))
      /\ UNCHANGED <<stop, transferStop, pc, air, closed, rpos, lost, dump, line, phase, subsecond>>
  BY DEF Feed
<1>2. /\ pending \in Seq(SampleSet)
      /\ pc # "last" \/ FlushFits => Len(pending) <= FrameSize + Delay
  BY DEF IInv, Types
<1>3. /\ Len(pending) \in Nat \ {0} /\ Head(pending) = pending[1] /\ Head(pending) \in SampleSet
      /\ pending' \in Seq(SampleSet) /\ Len(pending') = Len(pending) - 1
      /\ \A j \in 1 .. Len(pending) - 1 : pending'[j] = pending[j + 1]
  BY <1>1, <1>2, HeadTailProperties
<1>4. /\ OutputLen(0, EmergedLen) \in Nat /\ Taken \in Nat
      /\ Taken + Len(pending) = OutputLen(0, EmergedLen)
  BY TakenFacts
<1>5. EmergedLen' = EmergedLen /\ Input' = Input
  BY <1>1 DEF EmergedLen, Input
<1>6. Taken' = Taken + 1 /\ Taken + 1 <= OutputLen(0, EmergedLen)
  <2>1. Taken' = OutputLen(0, EmergedLen) - Len(pending')
    BY <1>5 DEF Taken
  <2> QED BY <1>3, <1>4, <2>1
<1>7. \A j \in 1 .. Len(pending) : pending[j] = At(Taken + j)
  BY DEF IInv, ResamplerInv
<1>8. Head(pending) = At(Taken + 1)
  <2>1. 1 \in 1 .. Len(pending)
    BY <1>3
  <2> QED BY <1>3, <1>7, <2>1
<1> QED BY <1>1, <1>3, <1>4, <1>5, <1>6, <1>8

LEMMA FeedKeepsInv ==
  ASSUME IInv, Feed, ahead' = ahead
  PROVE  IInv'
<1> USE DEF mediumVars, radioVars, resamplerVars
<1>1. /\ pc \in {"feed", "last"} /\ pending # <<>> /\ pending' = Tail(pending)
      /\ Take(Head(pending))
      /\ UNCHANGED <<stop, transferStop, pc, air, closed, rpos, lost, dump, line, phase, subsecond>>
  BY DEF Feed
<1>2. /\ pending \in Seq(SampleSet)
      /\ pc # "last" \/ FlushFits => Len(pending) <= FrameSize + Delay
  BY DEF IInv, Types
<1>3. /\ Len(pending) \in Nat \ {0} /\ Head(pending) = pending[1] /\ Head(pending) \in SampleSet
      /\ pending' \in Seq(SampleSet) /\ Len(pending') = Len(pending) - 1
      /\ \A j \in 1 .. Len(pending) - 1 : pending'[j] = pending[j + 1]
  BY <1>1, <1>2, HeadTailProperties
<1>4. /\ OutputLen(0, EmergedLen) \in Nat /\ Taken \in Nat
      /\ Taken + Len(pending) = OutputLen(0, EmergedLen)
  BY TakenFacts
<1>5. EmergedLen' = EmergedLen /\ Input' = Input
  BY <1>1 DEF EmergedLen, Input
<1>6. Taken' = Taken + 1 /\ Taken + 1 <= OutputLen(0, EmergedLen)
  BY FeedStep
<1>7. \A j \in 1 .. Len(pending) : pending[j] = At(Taken + j)
  BY DEF IInv, ResamplerInv
<1>8. Head(pending) = At(Taken + 1)
  BY FeedStep
<1>9. /\ sync' \in OpenFrames \cup {Seeking} /\ delivered' \in Seq(Seq(Nat))
      /\ SyncInv' /\ DeliveredInv' /\ ClockInv' /\ elapsed' \in 0 .. Timeout + 1
  BY <1>1, <1>3, <1>4, <1>6, <1>8, TakeKeepsInv
<1>10. /\ pc # "last" \/ FlushFits => Len(pending') <= FrameSize + Delay
       /\ Len(pending') <= OutputLen(0, EmergedLen)
  <2>1. FrameSize + Delay \in Nat
    BY ReceiveAssumption, SamplesAssumption
  <2> QED BY <1>2, <1>3, <1>4, <2>1
<1>11. Types'
  BY <1>1, <1>3, <1>9, <1>10 DEF IInv, Types
<1>12. MediumInv'
  BY <1>1, MediumUntouched DEF IInv, Types
<1>13. ResamplerInv'
  <2>1. ASSUME NEW j \in 1 .. Len(pending') PROVE pending'[j] = Input'[Position(0, Taken' + j)]
    <3>1. j \in 1 .. Len(pending) - 1 /\ j + 1 \in 1 .. Len(pending) /\ Taken + (j + 1) = Taken' + j
      BY <1>3, <1>4, <1>6
    <3>2. pending'[j] = At(Taken + (j + 1))
      BY <1>3, <1>7, <3>1
    <3>3. At(Taken + (j + 1)) = Input[Position(0, Taken + (j + 1))]
      BY DEF At
    <3> QED BY <1>5, <3>1, <3>2, <3>3
  <2>2. /\ pc \notin {"last", "done"} => line = SubSeq(Input, Len(dump) + 1, Len(dump) + Delay)
        /\ phase = NextPhase(0, EmergedLen)
    BY DEF IInv, ResamplerInv
  <2>3. /\ pc' \notin {"last", "done"} => line' = SubSeq(Input', Len(dump') + 1, Len(dump') + Delay)
        /\ pc' \in {"feed", "last"}
        /\ phase' = NextPhase(0, EmergedLen')
        /\ Len(pending') <= OutputLen(0, EmergedLen')
    BY <1>1, <1>5, <1>10, <2>2
  <2> QED BY <2>1, <2>3 DEF ResamplerInv, At
<1> QED BY <1>9, <1>11, <1>12, <1>13 DEF IInv

LEMMA DrainKeepsInv ==
  ASSUME IInv, Drain, ahead' = ahead
  PROVE  IInv'
<1> USE DEF mediumVars, radioVars, resamplerVars
<1>1. /\ pc = "last" /\ pending = <<>> /\ Take(Zero)
      /\ UNCHANGED <<stop, transferStop, pc, pending, air, closed, rpos, lost, dump, line, phase,
                     subsecond>>
  BY DEF Drain
<1>2. Zero \in SampleSet
  BY DEF SampleSet
<1>3. EmergedLen' = EmergedLen /\ Input' = Input /\ Taken' = Taken
  BY <1>1 DEF EmergedLen, Input, Taken
<1>4. Taken \in Nat /\ Taken' <= OutputLen(0, EmergedLen)
  BY <1>3, TakenFacts
<1>5. /\ sync' \in OpenFrames \cup {Seeking} /\ delivered' \in Seq(Seq(Nat))
      /\ SyncInv' /\ DeliveredInv' /\ ClockInv' /\ elapsed' \in 0 .. Timeout + 1
  BY <1>1, <1>2, <1>3, <1>4, TakeKeepsInv
<1>6. Types'
  BY <1>1, <1>5 DEF IInv, Types
<1>7. MediumInv'
  BY <1>1, MediumUntouched DEF IInv, Types
<1>8. ResamplerInv'
  <2>1. \A j : At(j)' = At(j)
    BY <1>3 DEF At
  <2> QED BY <1>1, <1>3, <2>1 DEF IInv, ResamplerInv
<1> QED BY <1>5, <1>6, <1>7, <1>8 DEF IInv
-----------------------------------------------------------------------------
(* The theorems. *)

LEMMA InitIInv == ReceptionInit => IInv
<1> SUFFICES ASSUME ReceptionInit PROVE IInv
  OBVIOUS
<1> USE SamplesAssumption, ReceiveAssumption, ReceptionAssumption
<1>1. /\ stop = FALSE /\ transferStop = FALSE /\ pc = "created" /\ rpos = 0 /\ lost = 0
      /\ dump = <<>> /\ line = EmptyLine /\ phase = 0 /\ pending = <<>>
      /\ sync = Seeking /\ delivered = <<>>
      /\ subsecond \in 0 .. TicksPerSecond - 1 /\ elapsed = 0 /\ quiet = 0
      /\ ahead = Script /\ air = <<>> /\ closed = FALSE
  BY DEF ReceptionInit, Init
<1>2. EmptyLine \in Seq(SampleSet) /\ Len(EmptyLine) = Delay
  BY DEF EmptyLine, SampleSet
<1>3. Types
  <2>1. /\ 0 \in 0 .. Len(<<>>) /\ 0 \in 0 .. MaxLost /\ Len(<<>>) = 0 /\ 0 \in 0 .. Decimation - 1
        /\ 0 <= FrameSize + Delay /\ 0 \in 0 .. Timeout + 1
        /\ <<>> \in Seq(SampleSet) /\ <<>> \in Seq(Seq(Nat))
    OBVIOUS
  <2>2. Script \in Seq(SampleSet)
    BY ScriptInOrder
  <2>3. /\ air \in Seq(SampleSet) /\ ahead \in Seq(SampleSet) /\ dump \in Seq(SampleSet)
        /\ rpos \in 0 .. Len(air) /\ lost \in 0 .. MaxLost /\ Len(dump) <= rpos
    BY <1>1, <2>1, <2>2
  <2>4. pending \in Seq(SampleSet) /\ Len(pending) <= FrameSize + Delay
    BY <1>1, <2>1
  <2>5. /\ elapsed \in 0 .. Timeout + 1 /\ sync \in OpenFrames \cup {Seeking}
        /\ delivered \in Seq(Seq(Nat)) /\ phase \in 0 .. Decimation - 1
    BY <1>1, <2>1
  <2> QED BY <1>1, <1>2, <2>3, <2>4, <2>5 DEF Types
<1>4. ClockInv
  <2>1. (Timeout + 1) * TicksPerSecond \in Nat /\ 0 * TicksPerSecond = 0
    OBVIOUS
  <2> QED BY <1>1, <2>1 DEF ClockInv
<1>5. MediumInv
  <2>1. DOMAIN dump = {} /\ DOMAIN air = {}
    BY <1>1
  <2> QED BY <1>1, <2>1, ScriptInOrder DEF MediumInv, InOrder
<1>6. ResamplerInv
  <2>1. EmergedLen = 0 /\ Len(dump) = 0 /\ Len(pending) = 0
    BY <1>1 DEF EmergedLen
  <2>2. 0 * Interpolation = 0 /\ 0 \div Decimation = 0 /\ 0 % Decimation = 0
    OBVIOUS
  <2>3. OutputLen(0, 0) = 0 /\ NextPhase(0, 0) = 0
    BY <2>2 DEF OutputLen, NextPhase
  <2>4. SubSeq(Input, 1, Delay) = line
    <3>1. EmptyLine \o <<>> = EmptyLine
      BY <1>2
    <3>2. SubSeq(EmptyLine, 1, Delay) = EmptyLine
      BY <1>2
    <3> QED BY <1>1, <3>1, <3>2 DEF Input
  <2> QED BY <1>1, <2>1, <2>3, <2>4 DEF ResamplerInv
<1>7. SyncInv /\ DeliveredInv
  <2>1. DOMAIN delivered = {}
    BY <1>1
  <2>2. \E from \in [DOMAIN delivered -> Own], end \in [DOMAIN delivered -> Nat] : TRUE
    <3>1. [i \in {} |-> 0] \in [{} -> Own] /\ [i \in {} |-> 0] \in [{} -> Nat]
      OBVIOUS
    <3> QED BY <2>1, <3>1
  <2> QED BY <1>1, <2>1, <2>2 DEF SyncInv, DeliveredInv
<1> QED BY <1>3, <1>4, <1>5, <1>6, <1>7 DEF IInv

LEMMA NextIInv == IInv /\ [ReceptionNext]_allVars => IInv'
<1> SUFFICES ASSUME IInv, [ReceptionNext]_allVars PROVE IInv'
  OBVIOUS
<1>1. CASE Receiver
  <2>1. ahead' = ahead
    BY <1>1 DEF Receiver
  <2>2. CASE Start
    BY <2>1, <2>2, StartKeepsInv
  <2>3. CASE TestStop \/ EndOfInput \/ BlockDone \/ Return
    BY <2>1, <2>3, CalmStepsKeepInv
  <2>4. ASSUME NEW n \in Readable, TimeOut(n) \/ ReceiveBlock(n) PROVE IInv'
    BY <2>1, <2>4, TimeOutKeepsInv, ReceiveBlockKeepsInv
  <2>5. CASE Flush
    BY <2>1, <2>5, FlushKeepsInv
  <2>6. CASE Feed
    BY <2>1, <2>6, FeedKeepsInv
  <2>7. CASE Drain
    BY <2>1, <2>7, DrainKeepsInv
  <2>8. CASE StopAll \/ StopTransfer
    BY <2>1, <2>8, StopKeepsInv
  <2>9. CASE Overflow
    BY <2>1, <2>9, OverflowKeepsInv
  <2>10. CASE Tick
    BY <2>1, <2>10, TickKeepsInv
  <2> QED BY <1>1, <2>2, <2>3, <2>4, <2>5, <2>6, <2>7, <2>8, <2>9, <2>10
          DEF Receiver, ThreadStep, Environment
<1>2. CASE Arrive \/ ArriveNoise
  BY <1>2, ArriveKeepsInv
<1>3. CASE Close
  BY <1>3, CloseKeepsInv
<1>4. CASE UNCHANGED <<vars, ahead>>
  <2> USE DEF vars, mediumVars, radioVars, resamplerVars, syncVars, clockVars
  <2>1. Types' /\ ClockInv' /\ MediumInv'
    BY <1>4, ClockUntouched, MediumUntouched DEF IInv, Types
  <2> QED BY <1>4, <2>1, EnvironmentStep
<1> QED BY <1>1, <1>2, <1>3, <1>4 DEF ReceptionNext, Returned, allVars

THEOREM AlwaysIInv == ReceptionSpec => []IInv
BY InitIInv, NextIInv, PTL DEF ReceptionSpec

(* The values of the variables stay in their sets; what the resampler gives *)
(* fits in the buffer whatever the phase and the number of samples read.    *)
THEOREM TypeCorrect == ReceptionSpec => []TypeOK
<1>1. IInv => TypeOK
  BY DEF IInv, Types, TypeOK, PendingFits
<1> QED BY <1>1, AlwaysIInv, PTL

(* A frame that the synchronizer has taken is in what the resampler makes   *)
(* of the samples that were read.                                           *)
LEMMA TakenIsResampled ==
  ASSUME Types, NEW i \in DOMAIN Frames, NEW e \in Nat,
         EndsAt(i, FrameLen(i), e), e <= OutputLen(0, EmergedLen)
  PROVE  Resampled(i)
<1> DEFINE s == Resample(0, Input)
           part == FrameOf(i)
           at == e - FrameLen(i)
<1>1. /\ FrameLen(i) \in Nat /\ FrameLen(i) > 1 /\ part \in Seq(SampleSet)
      /\ DOMAIN part = 1 .. FrameLen(i) /\ Len(part) = FrameLen(i)
      /\ \A m \in 1 .. FrameLen(i) : part[m] = Sample(i, m)
  <2>1. /\ FrameLen(i) \in Nat /\ FrameLen(i) > 1
        /\ part = [k \in 1 .. FrameLen(i) |-> Sample(i, k)]
    BY FrameFacts
  <2>2. part \in Seq(SampleSet)
    BY FrameInOrder
  <2> QED BY <2>1, <2>2
<1>2. /\ Input \in Seq(SampleSet) /\ Len(Input) \in Nat
      /\ EmergedLen \in Nat /\ EmergedLen <= Len(Input)
  BY InputFacts
<1>3. /\ s \in Seq(SampleSet) /\ Len(s) = OutputLen(0, Len(Input)) /\ Len(s) \in Nat
      /\ \A j \in 1 .. Len(s) : s[j] = At(j)
  <2>1. s = [j \in 1 .. OutputLen(0, Len(Input)) |-> At(j)]
    BY DEF Resample, At
  <2>2. 0 \in 0 .. Decimation - 1
    BY SamplesAssumption
  <2>3. s \in Seq(SampleSet)
    BY <1>2, <2>2, ResampleType
  <2>4. OutputLen(0, Len(Input)) \in Nat
    BY <1>2, OutputMonotone
  <2> HIDE DEF s
  <2> QED BY <2>1, <2>3, <2>4
<1>4. OutputLen(0, EmergedLen) \in Nat /\ OutputLen(0, EmergedLen) <= Len(s)
  BY <1>2, <1>3, OutputMonotone
<1>5. /\ at \in Nat /\ at \in 0 .. Len(s) - Len(part) /\ at + Len(part) = e /\ e <= Len(s)
  BY <1>1, <1>3, <1>4 DEF EndsAt
<1>6. ASSUME NEW m \in 1 .. FrameLen(i)
      PROVE  at + m \in 1 .. Len(s) /\ s[at + m] = part[m]
  <2>1. at + m \in 1 .. Len(s) /\ at + m = e - FrameLen(i) + m
    BY <1>1, <1>3, <1>5
  <2>2. At(e - FrameLen(i) + m) = Sample(i, m)
    BY DEF EndsAt
  <2> QED BY <1>1, <1>3, <2>1, <2>2
<1> HIDE DEF s, part, at
<1>7. Within(part, s)
  BY <1>1, <1>5, <1>6 DEF Within
<1> QED BY <1>7 DEF Resampled, s, part, Input

(* frame_received() gives only undamaged payloads of frames for this        *)
(* receiver to the data callback, each at most once and in the order in     *)
(* which they were sent, whatever the noise, the losses and the stops, for  *)
(* every sequence of frames and every resampling ratio.                     *)
THEOREM AlwaysDeliveredInOrder == ReceptionSpec => []DeliveredInOrder
<1>1. ASSUME IInv PROVE DeliveredInOrder
  <2>1. PICK from \in [DOMAIN delivered -> Own], end \in [DOMAIN delivered -> Nat] :
          /\ \A i \in DOMAIN delivered :
               /\ delivered[i] = Frames[from[i]][2]
               /\ EndsAt(from[i], FrameLen(from[i]), end[i])
               /\ end[i] <= Taken
               /\ sync # Seeking /\ sync.intact => end[i] <= Taken - sync.k
          /\ \A i, j \in DOMAIN delivered : i < j => from[i] < from[j]
    BY <1>1 DEF IInv, DeliveredInv
  <2>2. /\ OutputLen(0, EmergedLen) \in Nat /\ Taken \in Nat /\ Len(pending) \in Nat
        /\ Taken + Len(pending) = OutputLen(0, EmergedLen)
    BY <1>1, TakenFacts
  <2>3. ASSUME NEW i \in DOMAIN delivered
        PROVE  Resampled(from[i]) /\ delivered[i] = Frames[from[i]][2]
    <3>1. from[i] \in DOMAIN Frames
      BY DEF Own
    <3>2. end[i] \in Nat /\ end[i] <= OutputLen(0, EmergedLen)
      BY <2>1, <2>2
    <3>3. EndsAt(from[i], FrameLen(from[i]), end[i])
      BY <2>1
    <3>4. Types
      BY <1>1 DEF IInv
    <3> QED BY <2>1, <3>1, <3>2, <3>3, <3>4, TakenIsResampled
  <2> QED BY <2>1, <2>3 DEF DeliveredInOrder
<1> QED BY <1>1, AlwaysIInv, PTL

(* A reception never ends on its timeout less than Timeout seconds after    *)
(* the last frame, though time() only counts whole seconds: the comparison  *)
(* in receive_frames() is strict.                                           *)
THEOREM NeverEarly == ReceptionSpec => TimeoutNotEarly
<1>1. ASSUME IInv, [ReceptionNext]_allVars, Radio = "SOAPYSDR", pc = "read", pc' = "flush"
      PROVE  quiet >= Timeout * TicksPerSecond
  <2>1. pc' # pc
    BY <1>1
  <2>2. PICK n \in Readable : TimeOut(n)
    <3>1. ~(UNCHANGED allVars) /\ ~Returned /\ ~Arrive /\ ~ArriveNoise /\ ~Close /\ ~Environment
      BY <2>1 DEF allVars, vars, Returned, Arrive, ArriveNoise, Close, Environment, StopAll,
                  StopTransfer, Overflow, Tick
    <3>2. ThreadStep
      BY <1>1, <3>1 DEF ReceptionNext, Receiver
    <3>3. /\ ~Start /\ ~TestStop /\ ~EndOfInput /\ ~Flush /\ ~Feed /\ ~BlockDone /\ ~Drain
          /\ ~Return /\ \A n \in Readable : ~ReceiveBlock(n)
      BY <1>1 DEF Start, TestStop, EndOfInput, Flush, Feed, BlockDone, Drain, Return, ReceiveBlock
    <3> QED BY <3>2, <3>3 DEF ThreadStep
  <2>3. elapsed > Timeout
    BY <2>2 DEF TimeOut, TimeoutExceeded
  <2>4. elapsed \in 0 .. Timeout + 1 /\ Timeout \in Nat /\ TicksPerSecond \in Nat \ {0}
    BY <1>1, ReceiveAssumption DEF IInv, Types
  <2>5. elapsed = Timeout + 1 /\ ~(elapsed <= Timeout)
    BY <2>3, <2>4
  <2>6. quiet \in Nat /\ quiet + TicksPerSecond > (Timeout + 1) * TicksPerSecond + 0
    BY <1>1, <2>5 DEF IInv, ClockInv
  <2>7. (Timeout + 1) * TicksPerSecond = Timeout * TicksPerSecond + TicksPerSecond
        /\ Timeout * TicksPerSecond \in Nat
    BY <2>4
  <2> QED BY <2>4, <2>6, <2>7
<1>2. IInv /\ [ReceptionNext]_allVars
        => [Radio = "SOAPYSDR" /\ pc = "read" /\ pc' = "flush"
              => quiet >= Timeout * TicksPerSecond]_allVars
  BY <1>1
<1> QED BY <1>2, AlwaysIInv, PTL DEF ReceptionSpec, TimeoutNotEarly
-----------------------------------------------------------------------------
(* Nothing is missed: what the medium does to the samples of the frames. *)

(* Noise in place of samples, or between two of them. *)
LEMMA NoiseReplaces ==
  ASSUME NEW s \in Seq(SampleSet), NEW t \in Seq(SampleSet), Len(t) = Len(s),
         \A x \in DOMAIN s : t[x] = s[x] \/ t[x] = Noise,
         Spaced(s), Single(s)
  PROVE  Spaced(t) /\ Single(t)
<1>1. DOMAIN t = DOMAIN s
  OBVIOUS
<1>2. ASSUME NEW x \in DOMAIN t, NEW i \in DOMAIN Frames, t[x] = Sample(i, 1)
      PROVE  s[x] = Sample(i, 1)
  BY <1>1, <1>2, SampleFacts
<1>3. Spaced(t)
  BY <1>1, <1>2 DEF Spaced
<1>4. ASSUME NEW i \in DOMAIN Frames, NEW at \in Nat, Run(t, at, i) PROVE Run(s, at, i)
  <2>1. at + Decimation <= Len(s) /\ \A k \in 1 .. Decimation : t[at + k] = Sample(i, 1)
    BY <1>4 DEF Run
  <2>2. ASSUME NEW k \in 1 .. Decimation PROVE s[at + k] = Sample(i, 1)
    <3>1. at + k \in DOMAIN t
      BY <2>1, SamplesAssumption
    <3> QED BY <1>2, <2>1, <3>1
  <2> QED BY <2>1, <2>2 DEF Run
<1>5. Single(t)
  BY <1>1, <1>2, <1>4 DEF Single
<1> QED BY <1>3, <1>5

LEMMA NoiseInserted ==
  ASSUME NEW s \in Seq(SampleSet), NEW t \in Seq(SampleSet), Len(t) = Len(s) + 1,
         NEW p \in 0 .. Len(s),
         \A x \in 1 .. p : t[x] = s[x],
         t[p + 1] = Noise,
         \A x \in p + 1 .. Len(s) : t[x + 1] = s[x],
         Spaced(s), Single(s)
  PROVE  Spaced(t) /\ Single(t)
<1> USE SamplesAssumption
<1>1. /\ Len(s) \in Nat /\ DOMAIN s = 1 .. Len(s) /\ DOMAIN t = 1 .. Len(s) + 1 /\ p \in Nat
  OBVIOUS
<1> DEFINE Old(x) == IF x <= p THEN x ELSE x - 1
<1>2. ASSUME NEW x \in DOMAIN t, NEW i \in DOMAIN Frames, t[x] = Sample(i, 1)
      PROVE  x # p + 1 /\ Old(x) \in DOMAIN s /\ s[Old(x)] = Sample(i, 1)
  <2>1. x # p + 1
    BY <1>2, SampleFacts
  <2>2. CASE x <= p
    BY <1>1, <1>2, <2>2
  <2>3. CASE ~(x <= p)
    <3>1. x - 1 \in p + 1 .. Len(s) /\ (x - 1) + 1 = x
      BY <1>1, <2>1, <2>3
    <3>2. t[(x - 1) + 1] = s[x - 1]
      BY <3>1
    <3> QED BY <1>1, <1>2, <2>1, <2>3, <3>1, <3>2
  <2> QED BY <2>1, <2>2, <2>3
<1>3. Spaced(t)
  <2> SUFFICES ASSUME NEW i \in DOMAIN Frames, NEW j \in DOMAIN Frames,
                      NEW x \in DOMAIN t, NEW y \in DOMAIN t, i < j, x < y,
                      t[x] = Sample(i, 1), t[y] = Sample(j, 1)
               PROVE  y - x > (FrameLen(i) - 1) * Decimation
    BY DEF Spaced
  <2>1. /\ x # p + 1 /\ y # p + 1 /\ Old(x) \in DOMAIN s /\ Old(y) \in DOMAIN s
        /\ s[Old(x)] = Sample(i, 1) /\ s[Old(y)] = Sample(j, 1)
    BY <1>2
  <2>2. Old(x) < Old(y) /\ Old(y) - Old(x) <= y - x
    BY <1>1, <2>1
  <2>3. x \in Nat /\ y \in Nat /\ Old(x) \in Nat /\ Old(y) \in Nat
    BY <1>1, <2>1
  <2> HIDE DEF Old
  <2>4. Old(y) - Old(x) > (FrameLen(i) - 1) * Decimation
    BY <2>1, <2>2 DEF Spaced
  <2>5. (FrameLen(i) - 1) * Decimation \in Int
    BY FrameFacts
  <2> QED BY <2>2, <2>3, <2>4, <2>5
<1>4. Single(t)
  <2> SUFFICES ASSUME NEW i \in DOMAIN Frames, NEW at \in Nat, NEW x \in DOMAIN t,
                      Run(t, at, i), x <= at, t[x] = Sample(i, 1)
               PROVE  FALSE
    BY DEF Single
  <2>1. at + Decimation <= Len(s) + 1 /\ \A k \in 1 .. Decimation : t[at + k] = Sample(i, 1)
    BY DEF Run
  <2>2. ASSUME NEW k \in 1 .. Decimation
        PROVE  at + k # p + 1 /\ s[Old(at + k)] = Sample(i, 1)
    <3>1. at + k \in DOMAIN t
      BY <1>1, <2>1
    <3> QED BY <1>2, <2>1, <3>1
  <2>3. Old(x) \in DOMAIN s /\ s[Old(x)] = Sample(i, 1) /\ x \in Nat /\ x # p + 1
    BY <1>1, <1>2
  <2>4. CASE p < at
    <3>1. ASSUME NEW k \in 1 .. Decimation PROVE s[(at - 1) + k] = Sample(i, 1)
      <4>1. Old(at + k) = (at - 1) + k
        BY <1>1, <2>4
      <4> QED BY <2>2, <4>1
    <3>2. at - 1 \in Nat /\ (at - 1) + Decimation <= Len(s) /\ Old(x) <= at - 1
      BY <1>1, <2>1, <2>3, <2>4
    <3>3. Run(s, at - 1, i)
      BY <3>1, <3>2 DEF Run
    <3> HIDE DEF Old
    <3> QED BY <2>3, <3>2, <3>3 DEF Single
  <2>5. CASE ~(p < at)
    <3>1. at + Decimation <= p
      <4>1. CASE p + 1 <= at + Decimation
        <5>1. p + 1 - at \in 1 .. Decimation /\ at + (p + 1 - at) = p + 1
          BY <1>1, <2>5, <4>1
        <5> QED BY <2>2, <5>1
      <4> QED BY <1>1, <4>1
    <3>2. ASSUME NEW k \in 1 .. Decimation PROVE s[at + k] = Sample(i, 1)
      <4>1. Old(at + k) = at + k
        BY <1>1, <3>1
      <4> QED BY <2>2, <4>1
    <3>3. Run(s, at, i)
      BY <1>1, <3>1, <3>2 DEF Run
    <3>4. Old(x) = x
      BY <1>1, <2>3, <2>5
    <3> QED BY <2>3, <3>3, <3>4 DEF Single
  <2> QED BY <2>4, <2>5
<1> QED BY <1>3, <1>4

(* The beginning of the medium. *)
LEMMA PrefixSpaced ==
  ASSUME NEW s \in Seq(SampleSet), NEW t \in Seq(SampleSet), Len(s) <= Len(t),
         \A x \in DOMAIN s : s[x] = t[x]
  PROVE  /\ Spaced(t) => Spaced(s)
         /\ Single(t) => Single(s)
         /\ Clear(t) => Clear(s)
<1>1. \A x \in DOMAIN s : x \in DOMAIN t
  OBVIOUS
<1>2. ASSUME NEW i \in DOMAIN Frames, NEW at \in Nat, Run(s, at, i) PROVE Run(t, at, i)
  <2>1. at + Decimation <= Len(s) /\ \A k \in 1 .. Decimation : s[at + k] = Sample(i, 1)
    BY <1>2 DEF Run
  <2>2. \A k \in 1 .. Decimation : at + k \in DOMAIN s
    BY <2>1, SamplesAssumption
  <2>3. at + Decimation <= Len(t)
    BY <2>1, SamplesAssumption
  <2> QED BY <2>1, <2>2, <2>3 DEF Run
<1>3. Spaced(t) => Spaced(s)
  BY <1>1 DEF Spaced
<1>4. Single(t) => Single(s)
  BY <1>1, <1>2 DEF Single
<1> QED BY <1>1, <1>3, <1>4 DEF Clear

(* What has arrived and what has not. *)
Medium == air \o ahead

SpacedInv ==
  /\ noise \in Nat
  /\ Spaced(Medium) /\ Single(Medium)
  /\ noise = 0 => Clear(Medium)

LEMMA MediumFacts ==
  ASSUME NEW s \in Seq(SampleSet), NEW t \in Seq(SampleSet)
  PROVE  /\ s \o t \in Seq(SampleSet) /\ Len(s \o t) = Len(s) + Len(t)
         /\ Len(s) \in Nat /\ Len(t) \in Nat
         /\ \A k \in 1 .. Len(s) : (s \o t)[k] = s[k]
         /\ \A k \in 1 .. Len(t) : (s \o t)[Len(s) + k] = t[k]
<1> DEFINE all == s \o t
<1>1. Joins(all, s, t)
  BY DEF Joins
<1> HIDE DEF all
<1>2. /\ all \in Seq(SampleSet) /\ Len(all) = Len(s) + Len(t)
      /\ \A k \in 1 .. Len(s) : all[k] = s[k]
      /\ \A k \in 1 .. Len(t) : all[Len(s) + k] = t[k]
  BY <1>1, JoinsFacts
<1> QED BY <1>2 DEF all

LEMMA ArriveKeepsSpaced ==
  ASSUME IInv, SpacedInv, Arrive
  PROVE  SpacedInv'
<1> DEFINE s == Medium
           t == Medium'
           L == Len(air)
<1>1. /\ ahead # <<>> /\ ahead' = Tail(ahead)
      /\ \/ air' = Append(air, Head(ahead)) /\ noise' = noise
         \/ air' = Append(air, Noise) /\ noise' = noise + 1
  BY DEF Arrive
<1>2. PICK z \in SampleSet :
        /\ air' = Append(air, z)
        /\ \/ z = Head(ahead) /\ noise' = noise
           \/ z = Noise /\ noise' = noise + 1
  <2>1. Head(ahead) \in SampleSet /\ Noise \in SampleSet
    BY <1>1, HeadTailProperties DEF IInv, Types, SampleSet
  <2> QED BY <1>1, <2>1
<1>3. /\ air \in Seq(SampleSet) /\ ahead \in Seq(SampleSet) /\ L \in Nat
      /\ Len(ahead) \in Nat /\ Len(ahead) > 0 /\ Head(ahead) = ahead[1]
      /\ ahead' \in Seq(SampleSet) /\ Len(ahead') = Len(ahead) - 1
      /\ \A k \in 1 .. Len(ahead) - 1 : ahead'[k] = ahead[k + 1]
  BY <1>1, HeadTailProperties DEF IInv, Types
<1>4. /\ air' \in Seq(SampleSet) /\ Len(air') = L + 1 /\ air'[L + 1] = z
      /\ \A k \in 1 .. L : air'[k] = air[k]
  BY <1>2, <1>3, AppendProperties
<1>5. /\ s \in Seq(SampleSet) /\ Len(s) = L + Len(ahead)
      /\ \A k \in 1 .. L : s[k] = air[k]
      /\ \A k \in 1 .. Len(ahead) : s[L + k] = ahead[k]
  BY <1>3, MediumFacts DEF Medium
<1>6. /\ t \in Seq(SampleSet) /\ Len(t) = L + 1 + (Len(ahead) - 1)
      /\ \A k \in 1 .. L + 1 : t[k] = air'[k]
      /\ \A k \in 1 .. Len(ahead) - 1 : t[L + 1 + k] = ahead'[k]
  <2>1. /\ t \in Seq(SampleSet) /\ Len(t) = Len(air') + Len(ahead')
        /\ \A k \in 1 .. Len(air') : t[k] = air'[k]
        /\ \A k \in 1 .. Len(ahead') : t[Len(air') + k] = ahead'[k]
    BY <1>3, <1>4, MediumFacts DEF Medium
  <2> HIDE DEF t
  <2> QED BY <1>3, <1>4, <2>1
<1> HIDE DEF s, t, L
<1>7. Len(t) = Len(s)
  BY <1>3, <1>5, <1>6
<1>8. ASSUME NEW x \in DOMAIN s, x # L + 1 PROVE t[x] = s[x]
  <2>1. x \in 1 .. L + Len(ahead)
    BY <1>5
  <2>2. CASE x <= L
    <3>1. x \in 1 .. L /\ x \in 1 .. L + 1
      BY <1>3, <2>1, <2>2
    <3> QED BY <1>4, <1>5, <1>6, <3>1
  <2>3. CASE x > L
    <3>1. /\ x - (L + 1) \in 1 .. Len(ahead) - 1 /\ L + 1 + (x - (L + 1)) = x
          /\ x - L \in 1 .. Len(ahead) /\ L + (x - L) = x /\ (x - (L + 1)) + 1 = x - L
      <4>1. L \in Nat /\ Len(ahead) \in Nat /\ x \in Nat /\ x > L /\ x # L + 1 /\ x <= L + Len(ahead)
        BY <1>3, <1>8, <2>1, <2>3
      <4> QED BY <4>1
    <3>2. t[L + 1 + (x - (L + 1))] = ahead'[x - (L + 1)]
      BY <1>6, <3>1
    <3>3. ahead'[x - (L + 1)] = ahead[(x - (L + 1)) + 1]
      BY <1>3, <3>1
    <3>4. s[L + (x - L)] = ahead[x - L]
      BY <1>5, <3>1
    <3> QED BY <3>1, <3>2, <3>3, <3>4
  <2> QED BY <1>3, <2>1, <2>2, <2>3
<1>9. t[L + 1] = z /\ s[L + 1] = Head(ahead)
  <2>1. L + 1 \in 1 .. L + 1 /\ 1 \in 1 .. Len(ahead)
    BY <1>3
  <2> QED BY <1>3, <1>4, <1>5, <1>6, <2>1
<1>10. \A x \in DOMAIN s : t[x] = s[x] \/ t[x] = Noise
  BY <1>2, <1>8, <1>9
<1>11. Spaced(t) /\ Single(t)
  BY <1>5, <1>6, <1>7, <1>10, NoiseReplaces DEF SpacedInv, s
<1>12. ASSUME noise' = 0 PROVE Clear(t)
  <2>1. z = Head(ahead) /\ noise = 0
    BY <1>2, <1>12 DEF SpacedInv
  <2>2. DOMAIN t = DOMAIN s
    BY <1>5, <1>6, <1>7
  <2> QED BY <1>8, <1>9, <2>1, <2>2 DEF SpacedInv, Clear, s
<1>13. noise' \in Nat
  BY <1>2 DEF SpacedInv
<1> QED BY <1>11, <1>12, <1>13 DEF SpacedInv, t, Spaced, Single, Clear, Run

LEMMA ArriveNoiseKeepsSpaced ==
  ASSUME IInv, SpacedInv, ArriveNoise
  PROVE  SpacedInv'
<1> DEFINE s == Medium
           t == Medium'
           L == Len(air)
<1>1. air' = Append(air, Noise) /\ noise' = noise + 1 /\ ahead' = ahead
  BY DEF ArriveNoise
<1>2. Noise \in SampleSet
  BY DEF SampleSet
<1>3. air \in Seq(SampleSet) /\ ahead \in Seq(SampleSet) /\ L \in Nat /\ Len(ahead) \in Nat
  BY DEF IInv, Types
<1>4. /\ air' \in Seq(SampleSet) /\ Len(air') = L + 1 /\ air'[L + 1] = Noise
      /\ \A k \in 1 .. L : air'[k] = air[k]
  BY <1>1, <1>2, <1>3, AppendProperties
<1>5. /\ s \in Seq(SampleSet) /\ Len(s) = L + Len(ahead)
      /\ \A k \in 1 .. L : s[k] = air[k]
      /\ \A k \in 1 .. Len(ahead) : s[L + k] = ahead[k]
  BY <1>3, MediumFacts DEF Medium
<1>6. /\ t \in Seq(SampleSet) /\ Len(t) = L + 1 + Len(ahead)
      /\ \A k \in 1 .. L + 1 : t[k] = air'[k]
      /\ \A k \in 1 .. Len(ahead) : t[L + 1 + k] = ahead[k]
  BY <1>1, <1>3, <1>4, MediumFacts DEF Medium
<1> HIDE DEF s, t, L
<1>7. L \in 0 .. Len(s) /\ Len(t) = Len(s) + 1
  BY <1>3, <1>5, <1>6
<1>8. \A x \in 1 .. L : t[x] = s[x]
  <2>1. \A x \in 1 .. L : x \in 1 .. L + 1
    BY <1>3
  <2> QED BY <1>4, <1>5, <1>6, <2>1
<1>9. t[L + 1] = Noise
  <2>1. L + 1 \in 1 .. L + 1
    BY <1>3
  <2> QED BY <1>4, <1>6, <2>1
<1>10. ASSUME NEW x \in L + 1 .. Len(s) PROVE t[x + 1] = s[x]
  <2>1. x - L \in 1 .. Len(ahead) /\ L + 1 + (x - L) = x + 1 /\ L + (x - L) = x
    BY <1>3, <1>5
  <2>2. t[L + 1 + (x - L)] = ahead[x - L] /\ s[L + (x - L)] = ahead[x - L]
    BY <1>5, <1>6, <2>1
  <2> QED BY <2>1, <2>2
<1>11. Spaced(t) /\ Single(t)
  BY <1>5, <1>6, <1>7, <1>8, <1>9, <1>10, NoiseInserted DEF SpacedInv, s
<1>12. noise' \in Nat /\ noise' # 0
  BY <1>1 DEF SpacedInv
<1> QED BY <1>11, <1>12 DEF SpacedInv, t, Spaced, Single, Clear, Run
-----------------------------------------------------------------------------
(* Nothing is missed: what was read and what the synchronizer has taken. *)

(* Unless samples were lost, the dump is the beginning of what has arrived. *)
ReadInv ==
  lost = 0 =>
    /\ \A x \in DOMAIN dump : dump[x] = air[x]
    /\ pc \in {"created", "loop", "read", "feed"} => rpos = Len(dump)

(* No frame can be hidden by a loss or by noise. *)
Calm == lost = 0 /\ (HeaderLen = 1 \/ noise = 0) /\ Interpolation = 1

(* The synchronizer has been given samples of the radio only. *)
InProgress == pc # "done" /\ (pc = "last" => pending # <<>>)

(* A frame that is open began when its first sample was taken. *)
OpenInv ==
  Calm /\ InProgress /\ sync # Seeking =>
    \E i \in DOMAIN Frames :
      /\ sync.header = Header(Frames[i][1], i - 1) /\ sync.payload = Frames[i][2]
      /\ sync.k \in 1 .. FrameLen(i) - 1 /\ sync.k <= Taken
      /\ At(Taken - sync.k + 1) = Sample(i, 1)

(* What was read after the first samples, as far as it goes, is frame i,    *)
(* which had not begun before.                                              *)
Begun(i, at) ==
  /\ \A x \in DOMAIN dump : x <= at => dump[x] # Sample(i, 1)
  /\ \A r \in 1 .. FrameLen(i) * Decimation :
       at + r <= Len(dump) => dump[at + r] = Sample(i, (r - 1) \div Decimation + 1)

(* The first sample that the resampler makes of it. *)
First(at) == (Delay + at) \div Decimation + 1

(* When the synchronizer has taken k samples of a frame, it is open, or it  *)
(* was delivered if it is for this receiver.                                *)
Partial(i, k) ==
  [header |-> Header(Frames[i][1], i - 1), payload |-> Frames[i][2], k |-> k, intact |-> TRUE]

Heeded(i, k) ==
  /\ k < FrameLen(i) /\ InProgress => sync = Partial(i, k)
  /\ k >= FrameLen(i) /\ i \in Own =>
       \E j \in DOMAIN delivered : delivered[j] = Frames[i][2]

HeededInv ==
  Calm => \A i \in DOMAIN Frames, at \in Nat :
            Begun(i, at) /\ First(at) <= Taken => Heeded(i, Taken - First(at) + 1)

HeardInv == SpacedInv /\ ReadInv /\ OpenInv /\ HeededInv

LEMMA SpacedUntouched ==
  ASSUME SpacedInv, UNCHANGED <<air, ahead, noise>>
  PROVE  SpacedInv'
BY DEF SpacedInv, Spaced, Single, Clear, Run, Medium

LEMMA ReadUntouched ==
  ASSUME ReadInv, lost' = lost, dump' = dump,
         \A x \in DOMAIN dump : air'[x] = air[x],
         pc' \in {"created", "loop", "read", "feed"} =>
           pc \in {"created", "loop", "read", "feed"} /\ rpos' = rpos
  PROVE  ReadInv'
BY DEF ReadInv

(* The frames that have begun had begun before the last block. *)
LEMMA BegunBefore ==
  ASSUME dump \in Seq(SampleSet), dump' \in Seq(SampleSet), Len(dump) <= Len(dump'),
         \A x \in DOMAIN dump : dump'[x] = dump[x],
         NEW i \in DOMAIN Frames, NEW at \in Nat, Begun(i, at)'
  PROVE  Begun(i, at)
<1>1. /\ Len(dump) \in Nat /\ Len(dump') \in Nat /\ DOMAIN dump = 1 .. Len(dump)
      /\ DOMAIN dump' = 1 .. Len(dump')
  OBVIOUS
<1>2. /\ \A x \in DOMAIN dump' : x <= at => dump'[x] # Sample(i, 1)
      /\ \A r \in 1 .. FrameLen(i) * Decimation :
           at + r <= Len(dump') => dump'[at + r] = Sample(i, (r - 1) \div Decimation + 1)
  BY DEF Begun
<1>3. \A x \in DOMAIN dump : x \in DOMAIN dump'
  BY <1>1
<1>4. FrameLen(i) * Decimation \in Nat
  BY FrameFacts, SamplesAssumption
<1>5. ASSUME NEW r \in 1 .. FrameLen(i) * Decimation, at + r <= Len(dump)
      PROVE  dump[at + r] = Sample(i, (r - 1) \div Decimation + 1)
  <2>1. at + r \in DOMAIN dump /\ at + r <= Len(dump')
    BY <1>1, <1>4, <1>5
  <2> QED BY <1>2, <2>1
<1> QED BY <1>2, <1>3, <1>5 DEF Begun

(* The synchronizer takes nothing. *)
LEMMA SyncUntouched ==
  ASSUME OpenInv, HeededInv, Calm' => Calm, InProgress' => InProgress,
         UNCHANGED <<sync, delivered>>, Taken' = Taken, Taken \in Nat,
         \A j \in 1 .. Taken : At(j)' = At(j),
         dump \in Seq(SampleSet), dump' \in Seq(SampleSet), Len(dump) <= Len(dump'),
         \A x \in DOMAIN dump : dump'[x] = dump[x]
  PROVE  OpenInv' /\ HeededInv'
<1>1. OpenInv'
  <2> SUFFICES ASSUME Calm', InProgress', sync # Seeking
               PROVE  \E i \in DOMAIN Frames :
                        /\ sync.header = Header(Frames[i][1], i - 1)
                        /\ sync.payload = Frames[i][2]
                        /\ sync.k \in 1 .. FrameLen(i) - 1 /\ sync.k <= Taken
                        /\ At(Taken - sync.k + 1)' = Sample(i, 1)
    BY DEF OpenInv
  <2>1. PICK i \in DOMAIN Frames :
          /\ sync.header = Header(Frames[i][1], i - 1) /\ sync.payload = Frames[i][2]
          /\ sync.k \in 1 .. FrameLen(i) - 1 /\ sync.k <= Taken
          /\ At(Taken - sync.k + 1) = Sample(i, 1)
    BY DEF OpenInv
  <2>2. Taken - sync.k + 1 \in 1 .. Taken
    BY <2>1, FrameFacts
  <2> QED BY <2>1, <2>2
<1>2. HeededInv'
  <2> SUFFICES ASSUME Calm', NEW i \in DOMAIN Frames, NEW at \in Nat,
                      Begun(i, at)', First(at) <= Taken
               PROVE  Heeded(i, Taken - First(at) + 1)'
    BY DEF HeededInv, First
  <2>1. Begun(i, at)
    BY BegunBefore
  <2>2. Heeded(i, Taken - First(at) + 1)
    BY <2>1 DEF HeededInv
  <2> QED BY <2>2 DEF Heeded
<1> QED BY <1>1, <1>2

(* Steps that move no sample. *)
LEMMA StillStep ==
  ASSUME IInv, HeardInv, UNCHANGED <<dump, pending, sync, delivered>>,
         SpacedInv', ReadInv', lost' >= lost, noise' >= noise, noise' \in Nat, lost' \in Nat,
         EmergedLen' = EmergedLen, InProgress' => InProgress
  PROVE  HeardInv'
<1>1. Calm' => Calm
  BY DEF Calm, HeardInv, SpacedInv, IInv, Types
<1>2. Taken' = Taken /\ Taken \in Nat /\ \A j : At(j)' = At(j)
  BY TakenFacts DEF Taken, At, Input
<1>3. dump \in Seq(SampleSet) /\ Len(dump) \in Nat
  BY DEF IInv, Types
<1>4. OpenInv' /\ HeededInv'
  BY <1>1, <1>2, <1>3, SyncUntouched DEF HeardInv
<1> QED BY <1>4 DEF HeardInv

LEMMA CalmStepsKeepHeard ==
  ASSUME IInv, HeardInv, UNCHANGED <<ahead, noise>>,
         \/ Start \/ TestStop \/ EndOfInput \/ BlockDone \/ Return
         \/ StopAll \/ StopTransfer \/ Tick
  PROVE  HeardInv'
<1> USE DEF mediumVars, radioVars, resamplerVars, syncVars, clockVars
<1>1. /\ UNCHANGED <<pending, air, rpos, lost, dump, sync, delivered>>
      /\ \/ pc' = pc
         \/ pc' \in {"loop", "read", "flush"} /\ pc \in {"created", "loop", "read", "feed"}
         \/ pc = "last" /\ pc' = "done"
  BY DEF Start, TestStop, EndOfInput, BlockDone, Return, StopAll, StopTransfer, Tick
<1>2. SpacedInv'
  BY <1>1, SpacedUntouched DEF HeardInv
<1>3. ReadInv'
  BY <1>1, ReadUntouched DEF HeardInv
<1>4. EmergedLen' = EmergedLen
  BY <1>1 DEF EmergedLen
<1>5. lost \in Nat /\ noise \in Nat
  BY ReceiveAssumption DEF IInv, Types, HeardInv, SpacedInv
<1>6. InProgress' => InProgress
  BY <1>1 DEF InProgress, IInv, Types
<1>7. lost' >= lost /\ noise' >= noise /\ noise' \in Nat /\ lost' \in Nat
  BY <1>1, <1>5
<1> QED BY <1>1, <1>2, <1>3, <1>4, <1>6, <1>7, StillStep

LEMMA MediumStepsKeepHeard ==
  ASSUME IInv, HeardInv, Arrive \/ ArriveNoise \/ Close
  PROVE  HeardInv'
<1> USE DEF mediumVars, radioVars, resamplerVars, syncVars, clockVars
<1>1. UNCHANGED <<pc, pending, rpos, lost, dump, sync, delivered>>
  BY DEF Arrive, ArriveNoise, Close
<1>2. /\ lost \in Nat /\ noise \in Nat /\ air \in Seq(SampleSet) /\ ahead \in Seq(SampleSet)
      /\ Len(air) \in Nat /\ Len(dump) \in Nat /\ Len(dump) <= Len(air) /\ dump \in Seq(SampleSet)
  BY ReceiveAssumption DEF IInv, Types, HeardInv, SpacedInv
<1>3. SpacedInv'
  <2>1. CASE Close
    BY <2>1, SpacedUntouched DEF HeardInv, Close
  <2> QED BY <2>1, ArriveKeepsSpaced, ArriveNoiseKeepsSpaced DEF HeardInv
<1>4. noise' >= noise /\ noise' \in Nat
  BY <1>2 DEF Arrive, ArriveNoise, Close
<1>5. \A x \in DOMAIN dump : air'[x] = air[x]
  <2>1. \A x \in DOMAIN dump : x \in 1 .. Len(air)
    BY <1>2
  <2>2. CASE air' = air
    BY <2>2
  <2>3. ASSUME NEW z \in SampleSet, air' = Append(air, z) PROVE \A x \in 1 .. Len(air) : air'[x] = air[x]
    BY <1>2, <2>3, AppendProperties
  <2>4. air' = air \/ \E z \in SampleSet : air' = Append(air, z)
    <3>1. Noise \in SampleSet
      BY DEF SampleSet
    <3>2. CASE Arrive
      <4>1. Head(ahead) \in SampleSet
        BY <1>2, <3>2, HeadTailProperties DEF Arrive
      <4> QED BY <3>1, <3>2, <4>1 DEF Arrive
    <3> QED BY <3>1, <3>2 DEF ArriveNoise, Close
  <2> QED BY <2>1, <2>2, <2>3, <2>4
<1>6. ReadInv'
  BY <1>1, <1>5, ReadUntouched DEF HeardInv
<1>7. EmergedLen' = EmergedLen
  BY <1>1 DEF EmergedLen
<1>8. InProgress' => InProgress
  BY <1>1 DEF InProgress
<1>9. lost' >= lost /\ lost' \in Nat
  BY <1>1, <1>2
<1> QED BY <1>1, <1>3, <1>4, <1>6, <1>7, <1>8, <1>9, StillStep

LEMMA OverflowKeepsHeard ==
  ASSUME IInv, HeardInv, Overflow, UNCHANGED <<ahead, noise>>
  PROVE  HeardInv'
<1> USE DEF mediumVars, resamplerVars, syncVars, clockVars
<1>1. /\ lost' = lost + 1
      /\ UNCHANGED <<pc, pending, air, dump, sync, delivered>>
  BY DEF Overflow
<1>2. lost \in Nat /\ noise \in Nat
  BY ReceiveAssumption DEF IInv, Types, HeardInv, SpacedInv
<1>3. SpacedInv'
  BY <1>1, SpacedUntouched DEF HeardInv
<1>4. ReadInv'
  BY <1>1, <1>2 DEF ReadInv
<1>5. EmergedLen' = EmergedLen
  BY <1>1 DEF EmergedLen
<1>6. InProgress' => InProgress
  BY <1>1 DEF InProgress
<1>7. lost' >= lost /\ noise' >= noise /\ noise' \in Nat /\ lost' \in Nat
  BY <1>1, <1>2
<1> QED BY <1>1, <1>3, <1>4, <1>5, <1>6, <1>7, StillStep

LEMMA TimeOutKeepsHeard ==
  ASSUME IInv, HeardInv, NEW n \in Readable, TimeOut(n), UNCHANGED <<ahead, noise>>
  PROVE  HeardInv'
<1> USE DEF mediumVars, resamplerVars, syncVars, clockVars
<1>1. /\ pc = "read" /\ pc' = "flush"
      /\ UNCHANGED <<pending, air, lost, dump, sync, delivered>>
  BY DEF TimeOut
<1>2. lost \in Nat /\ noise \in Nat
  BY ReceiveAssumption DEF IInv, Types, HeardInv, SpacedInv
<1>3. SpacedInv'
  BY <1>1, SpacedUntouched DEF HeardInv
<1>4. ReadInv'
  BY <1>1, ReadUntouched DEF HeardInv
<1>5. EmergedLen' = EmergedLen
  BY <1>1 DEF EmergedLen
<1>6. InProgress' => InProgress
  BY <1>1 DEF InProgress
<1>7. lost' >= lost /\ noise' >= noise /\ noise' \in Nat /\ lost' \in Nat
  BY <1>1, <1>2
<1> QED BY <1>1, <1>3, <1>4, <1>5, <1>6, <1>7, StillStep

LEMMA ReceiveBlockKeepsHeard ==
  ASSUME IInv, HeardInv, NEW n \in Readable, ReceiveBlock(n), UNCHANGED <<ahead, noise>>
  PROVE  HeardInv'
<1> USE DEF mediumVars, syncVars, clockVars
<1> DEFINE in == SubSeq(air, rpos + 1, rpos + n)
<1>1. /\ pc = "read" /\ pc' = "feed" /\ rpos' = rpos + n
      /\ UNCHANGED <<air, lost, sync, delivered>>
  BY DEF ReceiveBlock
<1>2. /\ dump' \in Seq(SampleSet) /\ Len(dump') = Len(dump) + n
      /\ \A k \in 1 .. Len(dump) : dump'[k] = dump[k]
      /\ \A k \in 1 .. n : dump'[Len(dump) + k] = in[k]
      /\ Taken' = Taken /\ Taken \in Nat /\ \A j \in 1 .. Taken : At(j)' = At(j)
  BY BlockStep
<1>3. \A k \in 1 .. n : in[k] = air[rpos + k]
  BY BlockFacts
<1>4. n \in Nat /\ rpos \in Nat /\ Len(dump) \in Nat /\ dump \in Seq(SampleSet)
  BY ReadableFacts DEF IInv, Types
<1> HIDE DEF in
<1>5. SpacedInv'
  BY <1>1, SpacedUntouched DEF HeardInv
<1>6. ReadInv'
  <2> SUFFICES ASSUME lost = 0
               PROVE  /\ \A x \in DOMAIN dump' : dump'[x] = air[x]
                      /\ rpos' = Len(dump')
    BY <1>1 DEF ReadInv
  <2>1. rpos = Len(dump) /\ \A x \in DOMAIN dump : dump[x] = air[x]
    BY <1>1 DEF HeardInv, ReadInv
  <2>2. ASSUME NEW x \in DOMAIN dump' PROVE dump'[x] = air[x]
    <3>1. x \in 1 .. Len(dump) + n
      BY <1>2
    <3>2. CASE x <= Len(dump)
      <4>1. x \in 1 .. Len(dump) /\ x \in DOMAIN dump
        BY <1>4, <3>1, <3>2
      <4> QED BY <1>2, <2>1, <4>1
    <3>3. CASE ~(x <= Len(dump))
      <4>1. x - Len(dump) \in 1 .. n /\ Len(dump) + (x - Len(dump)) = x
        BY <1>4, <3>1, <3>3
      <4>2. dump'[Len(dump) + (x - Len(dump))] = air[rpos + (x - Len(dump))]
        BY <1>2, <1>3, <4>1
      <4> QED BY <2>1, <4>1, <4>2
    <3> QED BY <3>2, <3>3
  <2> QED BY <1>1, <1>2, <2>1, <2>2
<1>7. (Calm' => Calm) /\ InProgress
  BY <1>1 DEF Calm, InProgress
<1>8. Len(dump) <= Len(dump') /\ \A x \in DOMAIN dump : dump'[x] = dump[x]
  BY <1>2, <1>4
<1>9. OpenInv' /\ HeededInv'
  BY <1>1, <1>2, <1>4, <1>7, <1>8, SyncUntouched DEF HeardInv
<1> QED BY <1>5, <1>6, <1>9 DEF HeardInv

LEMMA FlushKeepsHeard ==
  ASSUME IInv, HeardInv, Flush, UNCHANGED <<ahead, noise>>
  PROVE  HeardInv'
<1> USE DEF mediumVars, radioVars, syncVars, clockVars
<1>1. /\ pc = "flush" /\ pc' = "last"
      /\ UNCHANGED <<air, rpos, lost, dump, sync, delivered>>
  BY DEF Flush
<1>2. Taken' = Taken /\ Taken \in Nat /\ \A j \in 1 .. Taken : At(j)' = At(j)
  BY FlushStep
<1>3. dump \in Seq(SampleSet) /\ Len(dump) \in Nat
  BY DEF IInv, Types
<1>4. SpacedInv'
  BY <1>1, SpacedUntouched DEF HeardInv
<1>5. ReadInv'
  BY <1>1, ReadUntouched DEF HeardInv
<1>6. (Calm' => Calm) /\ InProgress
  BY <1>1 DEF Calm, InProgress
<1>7. OpenInv' /\ HeededInv'
  BY <1>1, <1>2, <1>3, <1>6, SyncUntouched DEF HeardInv
<1> QED BY <1>4, <1>5, <1>7 DEF HeardInv
-----------------------------------------------------------------------------
(* Where the samples of a frame come out. *)

(* With no interpolation, every Decimation-th sample is kept. *)
LEMMA Decimated ==
  ASSUME Interpolation = 1
  PROVE  /\ \A j \in Nat : Position(0, j) = j * Decimation
         /\ \A n \in Nat : OutputLen(0, n) = n \div Decimation
<1>1. ASSUME NEW j \in Nat PROVE Position(0, j) = j * Decimation
  <2>1. j * Decimation \in Nat
    BY SamplesAssumption
  <2>2. j * Decimation - 0 + Interpolation - 1 = j * Decimation * 1 + 0
    BY <2>1
  <2> DEFINE x == j * Decimation
  <2>3. (x * 1 + 0) \div 1 = x
    <3> HIDE DEF x
    <3>1. x \in Nat
      BY <2>1 DEF x
    <3> QED BY <3>1, DivisionUnique
  <2> QED BY <2>2, <2>3 DEF Position
<1>2. \A n \in Nat : 0 + n * Interpolation = n
  OBVIOUS
<1> QED BY <1>1, <1>2 DEF OutputLen

(* Output sample j is made from sample j * Decimation - Delay of the dump. *)
LEMMA SampleTaken ==
  ASSUME Types, Interpolation = 1, NEW j \in 1 .. OutputLen(0, EmergedLen)
  PROVE  LET x == j * Decimation - Delay
         IN  /\ x \in Int /\ x <= Len(dump)
             /\ x <= 0 => At(j) = Zero
             /\ x > 0 => x \in DOMAIN dump /\ At(j) = dump[x]
<1> DEFINE p == j * Decimation
<1>1. /\ Len(dump) \in Nat /\ dump \in Seq(SampleSet) /\ EmergedLen \in Nat
      /\ EmergedLen <= Delay + Len(dump) /\ Delay \in Nat
  BY InputFacts, SamplesAssumption DEF Types
<1>2. Position(0, j) = p /\ p \in Nat
  <2>1. j \in Nat
    OBVIOUS
  <2> QED BY <2>1, Decimated, SamplesAssumption
<1>3. p \in 1 .. EmergedLen
  <2>1. 0 \in 0 .. Decimation - 1
    BY SamplesAssumption
  <2> QED BY <1>1, <1>2, <2>1, PositionInBlock
<1>4. EmptyLine \in Seq(SampleSet) /\ Len(EmptyLine) = Delay
      /\ \A k \in 1 .. Delay : EmptyLine[k] = Zero
  BY SamplesAssumption DEF EmptyLine, SampleSet
<1>5. At(j) = Input[p]
  BY <1>2 DEF At
<1> HIDE DEF p
<1>6. /\ \A k \in 1 .. Delay : Input[k] = EmptyLine[k]
      /\ \A k \in 1 .. Len(dump) : Input[Delay + k] = dump[k]
  <2>1. Joins(Input, EmptyLine, dump)
    BY DEF Joins, Input
  <2>2. EmptyLine \in Seq(SampleSet) /\ dump \in Seq(SampleSet)
    BY <1>1, <1>4
  <2>3. /\ \A k \in 1 .. Len(EmptyLine) : Input[k] = EmptyLine[k]
        /\ \A k \in 1 .. Len(dump) : Input[Len(EmptyLine) + k] = dump[k]
    BY ONLY <2>1, <2>2, JoinsFacts
  <2> QED BY <1>4, <2>3
<1>7. CASE p <= Delay
  <2>1. p \in 1 .. Delay /\ p - Delay \in Int /\ p - Delay <= 0 /\ p - Delay <= Len(dump)
    BY <1>1, <1>2, <1>3, <1>7
  <2> QED BY <1>4, <1>5, <1>6, <2>1 DEF p
<1>8. CASE p > Delay
  <2>1. /\ p - Delay \in 1 .. Len(dump) /\ Delay + (p - Delay) = p
        /\ p - Delay \in Int /\ p - Delay > 0 /\ p - Delay <= Len(dump)
    BY <1>1, <1>2, <1>3, <1>8
  <2> QED BY <1>1, <1>5, <1>6, <2>1 DEF p
<1> QED BY <1>1, <1>2, <1>7, <1>8

LEMMA FirstFacts ==
  ASSUME NEW at \in Nat
  PROVE  /\ First(at) \in Nat \ {0}
         /\ (First(at) - 1) * Decimation <= Delay + at
         /\ Delay + at < First(at) * Decimation
         /\ First(at) * Decimation <= Delay + at + Decimation
<1> USE SamplesAssumption
<1> DEFINE q == (Delay + at) \div Decimation
<1>1. q \in Nat /\ q * Decimation <= Delay + at /\ Delay + at < q * Decimation + Decimation
  <2>1. Delay + at \in Nat
    OBVIOUS
  <2> QED BY <2>1, Division
<1> HIDE DEF q
<1>2. /\ (q + 1) * Decimation = q * Decimation + Decimation /\ q * Decimation \in Nat
      /\ (q + 1) - 1 = q /\ q + 1 \in Nat \ {0}
  BY <1>1
<1>3. First(at) = q + 1
  BY DEF First, q
<1>4. (q + 1) * Decimation <= Delay + at + Decimation
  BY <1>1, <1>2
<1> QED BY <1>1, <1>2, <1>3, <1>4

(* The samples of a frame that has begun. *)
LEMMA BegunSample ==
  ASSUME Types, Interpolation = 1, NEW i \in DOMAIN Frames, NEW at \in Nat, Begun(i, at),
         NEW j \in 1 .. OutputLen(0, EmergedLen), First(at) <= j, j - First(at) < FrameLen(i)
  PROVE  LET x == j * Decimation - Delay
         IN  /\ At(j) = Sample(i, j - First(at) + 1)
             /\ x \in DOMAIN dump /\ At(j) = dump[x]
             /\ at < x /\ (j = First(at) => x <= at + Decimation)
<1> USE SamplesAssumption
<1> DEFINE f == First(at)
           k == j - f
           x == j * Decimation - Delay
           r == x - at
           m == FrameLen(i)
<1>1. f \in Nat \ {0} /\ Delay + at < f * Decimation /\ f * Decimation <= Delay + at + Decimation
  BY FirstFacts
<1>2. x \in Int /\ x <= Len(dump) /\ (x > 0 => x \in DOMAIN dump /\ At(j) = dump[x])
  BY SampleTaken
<1>3. m \in Nat /\ m * Decimation \in Nat
  BY FrameFacts
<1>4. j \in Nat
  OBVIOUS
<1> HIDE DEF f, m
<1>5. k \in Nat /\ k + 1 <= m /\ j = k + f
  BY <1>1, <1>3, <1>4 DEF f, m
<1>6. j * Decimation = k * Decimation + f * Decimation /\ k * Decimation \in Nat /\ f * Decimation \in Nat
  <2> HIDE DEF k
  <2> QED BY <1>1, <1>5
<1>7. k * Decimation + Decimation <= m * Decimation
  <2> HIDE DEF k
  <2>1. (k + 1) * Decimation <= m * Decimation
    BY <1>3, <1>5
  <2>2. (k + 1) * Decimation = k * Decimation + Decimation
    BY <1>5
  <2> QED BY <2>1, <2>2
<1> HIDE DEF k
<1>8. j * Decimation \in Nat
  BY <1>4
<1>9. /\ r \in Int /\ k * Decimation < r /\ r <= k * Decimation + Decimation
      /\ r - 1 - k * Decimation \in 0 .. Decimation - 1
      /\ k * Decimation + (r - 1 - k * Decimation) = r - 1
  BY <1>1, <1>6, <1>8
<1>10. (r - 1) \div Decimation = k
  <2> DEFINE z == r - 1 - k * Decimation
  <2>1. z \in 0 .. Decimation - 1 /\ k * Decimation + z = r - 1
    BY <1>9
  <2> HIDE DEF z, r
  <2>2. (k * Decimation + z) \div Decimation = k
    BY <1>5, <2>1, DivisionUnique
  <2> QED BY <2>1, <2>2
<1>11. r \in 1 .. m * Decimation /\ at + r = x /\ x > 0 /\ at < x
  BY <1>1, <1>2, <1>3, <1>6, <1>7, <1>9
<1>12. dump[x] = Sample(i, k + 1)
  <2>1. \A s \in 1 .. m * Decimation :
          at + s <= Len(dump) => dump[at + s] = Sample(i, (s - 1) \div Decimation + 1)
    BY DEF Begun, m
  <2> HIDE DEF r, x
  <2> QED BY <1>2, <1>10, <1>11, <2>1
<1>13. j = f => x <= at + Decimation
  BY <1>1, <1>2, <1>8
<1> QED BY <1>2, <1>11, <1>12, <1>13 DEF k, f

(* What was read is as the script was. *)
LEMMA DumpSpaced ==
  ASSUME IInv, HeardInv, lost = 0
  PROVE  Spaced(dump) /\ Single(dump) /\ (noise = 0 => Clear(dump))
<1>1. /\ air \in Seq(SampleSet) /\ ahead \in Seq(SampleSet) /\ dump \in Seq(SampleSet)
      /\ Len(air) \in Nat /\ Len(ahead) \in Nat /\ Len(dump) \in Nat /\ Len(dump) <= Len(air)
  BY DEF IInv, Types
<1>2. /\ Medium \in Seq(SampleSet) /\ Len(Medium) = Len(air) + Len(ahead)
      /\ \A k \in 1 .. Len(air) : Medium[k] = air[k]
  BY <1>1, MediumFacts DEF Medium
<1>3. Len(dump) <= Len(Medium)
  BY <1>1, <1>2
<1>4. \A x \in DOMAIN dump : x \in 1 .. Len(air) /\ dump[x] = air[x]
  BY <1>1 DEF HeardInv, ReadInv
<1>5. \A x \in DOMAIN dump : dump[x] = Medium[x]
  BY <1>2, <1>4
<1> QED BY <1>1, <1>2, <1>3, <1>5, PrefixSpaced DEF HeardInv, SpacedInv

(* The synchronizer is free when a frame begins. *)
LEMMA FreeForFrame ==
  ASSUME IInv, HeardInv, Calm, InProgress, Taken + 1 <= OutputLen(0, EmergedLen),
         NEW i \in DOMAIN Frames, NEW at \in Nat, Begun(i, at), First(at) = Taken + 1
  PROVE  sync = Seeking
<1> SUFFICES ASSUME sync # Seeking PROVE FALSE
  OBVIOUS
<1> USE SamplesAssumption
<1>1. PICK o \in DOMAIN Frames :
        /\ sync.k \in 1 .. FrameLen(o) - 1 /\ sync.k <= Taken
        /\ At(Taken - sync.k + 1) = Sample(o, 1)
  BY DEF HeardInv, OpenInv
<1> DEFINE k == sync.k
           j == Taken - k + 1
           m == FrameLen(o)
           x == j * Decimation - Delay
           z == (Taken + 1) * Decimation - Delay
<1>2. Types /\ Interpolation = 1 /\ lost = 0
  BY DEF IInv, Calm
<1>3. Taken \in Nat /\ OutputLen(0, EmergedLen) \in Nat
  BY TakenFacts
<1>4. m \in Nat /\ k \in Nat /\ k >= 1 /\ k + 1 <= m /\ FrameLen(i) \in Nat /\ FrameLen(i) > 1
  BY <1>1, FrameFacts
<1>5. j \in 1 .. OutputLen(0, EmergedLen) /\ j \in Nat /\ Taken + 1 = j + k
      /\ Taken + 1 \in 1 .. OutputLen(0, EmergedLen)
  BY <1>1, <1>3, <1>4
<1>6. x \in Int /\ x \in DOMAIN dump /\ dump[x] = Sample(o, 1)
  <2>1. At(j) # Zero
    BY <1>1, SampleFacts
  <2>2. x \in Int /\ (x <= 0 => At(j) = Zero) /\ (x > 0 => x \in DOMAIN dump /\ At(j) = dump[x])
    BY <1>2, <1>5, SampleTaken
  <2>3. x > 0
    BY <2>1, <2>2
  <2> QED BY <1>1, <2>2, <2>3
<1>7. /\ z \in DOMAIN dump /\ at < z /\ z <= at + Decimation
  <2>1. (Taken + 1) - First(at) < FrameLen(i) /\ First(at) <= Taken + 1
    BY <1>3, <1>4
  <2> QED BY <1>2, <1>5, <2>1, BegunSample
<1>8. dump \in Seq(SampleSet) /\ Len(dump) \in Nat
  BY <1>2 DEF Types
<1>9. at + 1 \in DOMAIN dump /\ dump[at + 1] = Sample(i, 1)
  <2>1. at + 1 <= Len(dump) /\ at + 1 \in DOMAIN dump
    BY <1>7, <1>8
  <2>2. FrameLen(i) * Decimation \in Nat /\ FrameLen(i) * Decimation >= 1
    BY <1>4
  <2>3. 1 \in 1 .. FrameLen(i) * Decimation /\ (1 - 1) \div Decimation + 1 = 1
    BY <2>2
  <2> QED BY <2>1, <2>3 DEF Begun
<1>10. z = x + k * Decimation /\ k * Decimation \in Nat /\ Decimation <= k * Decimation
  <2> HIDE DEF j, k
  <2>1. (Taken + 1) * Decimation = j * Decimation + k * Decimation /\ j * Decimation \in Nat
        /\ k * Decimation \in Nat /\ Decimation <= k * Decimation
    BY <1>4, <1>5
  <2> QED BY <2>1
<1>11. k * Decimation <= (m - 1) * Decimation /\ (m - 1) * Decimation \in Nat
  <2> HIDE DEF k, m
  <2>1. m - 1 \in Nat /\ k <= m - 1
    BY <1>4
  <2> QED BY <1>4, <2>1
<1>12. x <= at /\ x < at + 1 /\ (at + 1) - x <= (m - 1) * Decimation /\ x \in Int
  <2> HIDE DEF x, z, k, m
  <2>1. z \in Int
    BY <1>7, <1>8
  <2> QED BY <1>6, <1>7, <1>10, <1>11, <2>1
<1> HIDE DEF x, z, k, m, j
<1>13. Ordered(dump[x], dump[at + 1])
  BY <1>6, <1>9, <1>12 DEF IInv, MediumInv, InOrder
<1>14. o < i \/ o = i
  BY <1>6, <1>9, <1>13 DEF Ordered
<1>15. o # i
  BY <1>6, <1>12 DEF Begun
<1>16. (at + 1) - x > (m - 1) * Decimation
  BY <1>2, <1>6, <1>9, <1>12, <1>14, <1>15, DumpSpaced DEF Spaced, m
<1>17. (at + 1) - x \in Int
  BY <1>6
<1> QED BY <1>11, <1>12, <1>16, <1>17
-----------------------------------------------------------------------------
(* The synchronizer takes a sample, and no frame is missed. *)

(* What was delivered stays so. *)
Keeps == \A j \in DOMAIN delivered : j \in DOMAIN delivered' /\ delivered'[j] = delivered[j]

LEMMA TakeKeepsDelivered ==
  ASSUME Types, NEW s, Take(s)
  PROVE  Keeps
<1>1. delivered \in Seq(Seq(Nat)) /\ Len(delivered) \in Nat /\ DOMAIN delivered = 1 .. Len(delivered)
  BY DEF Types
<1>2. PICK f \in SyncSample(s) :
        \/ delivered' = delivered
        \/ FrameReceived(f.header, FALSE, <<>>, FALSE)
        \/ Complete(f) /\ FrameReceived(f.header, TRUE, f.payload, f.intact)
  BY DEF Take
<1>3. delivered' = delivered \/ delivered' = Append(delivered, f.payload)
  BY <1>2 DEF FrameReceived
<1>4. CASE delivered' = delivered
  BY <1>4 DEF Keeps
<1>5. CASE delivered' = Append(delivered, f.payload)
  <2>1. /\ DOMAIN delivered' = 1 .. Len(delivered) + 1
        /\ \A j \in 1 .. Len(delivered) : delivered'[j] = delivered[j]
    BY <1>1, <1>5
  <2> QED BY <1>1, <2>1 DEF Keeps
<1> QED BY <1>3, <1>4, <1>5

LEMMA HeededLater ==
  ASSUME Keeps, NEW i \in DOMAIN Frames, NEW k \in Nat, NEW l \in Nat,
         k >= FrameLen(i), l >= FrameLen(i), Heeded(i, k)
  PROVE  Heeded(i, l)'
<1>1. FrameLen(i) \in Nat
  BY FrameFacts
<1>2. ~(l < FrameLen(i))
  BY <1>1
<1>3. ASSUME i \in Own PROVE \E j \in DOMAIN delivered' : delivered'[j] = Frames[i][2]
  <2>1. PICK j \in DOMAIN delivered : delivered[j] = Frames[i][2]
    BY <1>3 DEF Heeded
  <2> QED BY <2>1 DEF Keeps
<1> QED BY <1>2, <1>3 DEF Heeded

(* The first sample of a frame opens it. *)
LEMMA FrameOpens ==
  ASSUME NEW i \in DOMAIN Frames, NEW s, s = Sample(i, 1), sync = Seeking, Take(s)
  PROVE  sync' = Partial(i, 1) /\ delivered' = delivered
<1>1. StartsFrame(s) /\ s[1] = Header(Frames[i][1], i - 1) /\ s[2] = Frames[i][2]
  BY DEF StartsFrame, Sample
<1>2. SyncSample(s) = {Partial(i, 1)}
  BY <1>1 DEF SyncSample, Open, Partial
<1>3. ~HeaderRefused(Partial(i, 1)) /\ ~Complete(Partial(i, 1))
  <2>1. HeaderLen + Len(Frames[i][2]) # 1
    BY FrameFacts DEF FrameLen
  <2> QED BY <2>1 DEF HeaderRefused, Complete, Partial
<1> QED BY <1>2, <1>3 DEF Take

(* The next one continues it, and the last one completes it. *)
LEMMA FrameContinues ==
  ASSUME Types, NEW i \in DOMAIN Frames, NEW k \in Nat, NEW s, s = Sample(i, k + 1),
         sync = Partial(i, k), Take(s)
  PROVE  /\ k + 1 # FrameLen(i) => sync' = Partial(i, k + 1)
         /\ k + 1 = FrameLen(i) /\ i \in Own =>
              \E j \in DOMAIN delivered' : delivered'[j] = Frames[i][2]
<1> DEFINE g == Partial(i, k + 1)
<1>1. sync # Seeking
  <2>1. "k" \in DOMAIN Partial(i, k)
    BY DEF Partial
  <2> QED BY <2>1 DEF Seeking
<1>2. SyncSample(s) = {g}
  <2> DEFINE h == Header(Frames[i][1], i - 1)
             p == Frames[i][2]
             next == [sync EXCEPT !.k = @ + 1,
                                  !.intact = @ /\ s = <<sync.header, sync.payload, sync.k + 1>>]
  <2>1. sync = [header |-> h, payload |-> p, k |-> k, intact |-> TRUE] /\ s = <<h, p, k + 1>>
    BY DEF Partial, Sample
  <2>2. SyncSample(s) = {next}
    BY <1>1 DEF SyncSample
  <2> HIDE DEF h, p
  <2>3. sync.header = h /\ sync.payload = p /\ sync.k = k /\ sync.intact = TRUE
    BY <2>1
  <2>4. (sync.intact /\ s = <<sync.header, sync.payload, sync.k + 1>>) = TRUE
    BY <2>1, <2>3
  <2>5. next = [sync EXCEPT !.k = k + 1, !.intact = TRUE]
    BY <2>3, <2>4
  <2> HIDE DEF next
  <2>6. next = [header |-> h, payload |-> p, k |-> k + 1, intact |-> TRUE]
    <3>1. sync = [header |-> h, payload |-> p, k |-> k, intact |-> TRUE]
      BY <2>1
    <3>2. sync \in [header : {h}, payload : {p}, k : Nat, intact : BOOLEAN]
      BY <3>1
    <3> QED BY <2>3, <2>5, <3>2
  <2>7. next = g
    BY <2>6 DEF Partial, h, p
  <2> QED BY <2>2, <2>7
<1>3. /\ g.header = Header(Frames[i][1], i - 1) /\ g.payload = Frames[i][2]
      /\ g.k = k + 1 /\ g.intact = TRUE
  BY DEF Partial
<1>4. g # Seeking
  <2>1. "k" \in DOMAIN g
    BY DEF Partial
  <2> QED BY <2>1 DEF Seeking
<1> HIDE DEF g
<1>5. ~HeaderRefused(g) /\ (Complete(g) <=> k + 1 = FrameLen(i))
  BY <1>3, <1>4 DEF HeaderRefused, Complete, FrameLen
<1>6. \/ ~Complete(g) /\ sync' = g
      \/ Complete(g) /\ FrameReceived(g.header, TRUE, g.payload, g.intact)
  BY <1>2, <1>5 DEF Take
<1>7. ASSUME k + 1 = FrameLen(i), i \in Own
      PROVE  \E j \in DOMAIN delivered' : delivered'[j] = Frames[i][2]
  <2>1. delivered' = Append(delivered, Frames[i][2])
    <3>1. g.header[1] = Id
      BY <1>3, <1>7 DEF Own, Header
    <3> QED BY <1>3, <1>5, <1>6, <1>7, <3>1 DEF FrameReceived
  <2>2. delivered \in Seq(Seq(Nat)) /\ Len(delivered) \in Nat
    BY DEF Types
  <2>3. Len(delivered) + 1 \in DOMAIN delivered' /\ delivered'[Len(delivered) + 1] = Frames[i][2]
    BY <2>1, <2>2
  <2> QED BY <2>3
<1> QED BY <1>5, <1>6, <1>7 DEF g

(* A sample of the stream is noise only if noise arrived. *)
LEMMA NoNoise ==
  ASSUME IInv, HeardInv, Calm, noise = 0, NEW j \in 1 .. OutputLen(0, EmergedLen)
  PROVE  At(j) # Noise
<1>1. Types /\ Interpolation = 1 /\ lost = 0
  BY DEF IInv, Calm
<1>2. Zero # Noise
  <2>1. Len(Zero) = 0 /\ Len(Noise) = 1
    BY DEF Zero, Noise
  <2> QED BY <2>1
<1> DEFINE x == j * Decimation - Delay
<1>3. x \in Int /\ (x <= 0 => At(j) = Zero) /\ (x > 0 => x \in DOMAIN dump /\ At(j) = dump[x])
  BY <1>1, SampleTaken
<1> HIDE DEF x
<1>4. Clear(dump)
  BY <1>1, DumpSpaced
<1>5. x <= 0 \/ x > 0
  BY <1>3
<1> QED BY <1>2, <1>3, <1>4, <1>5 DEF Clear

(* Whatever frame is open after a sample began with its first sample. *)
LEMMA FeedKeepsOpen ==
  ASSUME IInv, HeardInv, Feed, noise' = noise
  PROVE  OpenInv'
<1> DEFINE s == Head(pending)
<1>1. /\ pc \in {"feed", "last"} /\ pending # <<>>
      /\ UNCHANGED <<pc, lost, dump>>
  BY DEF Feed, radioVars
<1>2. /\ Taken' = Taken + 1 /\ Taken \in Nat /\ Taken + 1 <= OutputLen(0, EmergedLen)
      /\ s = At(Taken + 1) /\ s \in SampleSet /\ Take(s) /\ Input' = Input
  BY FeedStep
<1>3. \A j : At(j)' = At(j)
  BY <1>2 DEF At
<1> HIDE DEF s
<1> SUFFICES ASSUME Calm', InProgress', sync' # Seeking
             PROVE  \E i \in DOMAIN Frames :
                      /\ sync'.header = Header(Frames[i][1], i - 1)
                      /\ sync'.payload = Frames[i][2]
                      /\ sync'.k \in 1 .. FrameLen(i) - 1 /\ sync'.k <= Taken + 1
                      /\ At(Taken + 1 - sync'.k + 1) = Sample(i, 1)
  BY <1>2, <1>3 DEF OpenInv
<1>4. Calm /\ InProgress /\ Types /\ OpenInv
  BY <1>1 DEF Calm, InProgress, IInv, HeardInv
<1>5. PICK f \in SyncSample(s) : sync' = f /\ ~HeaderRefused(f) /\ ~Complete(f)
  BY <1>2 DEF Take
<1>6. CASE sync # Seeking
  <2>1. PICK i \in DOMAIN Frames :
          /\ sync.header = Header(Frames[i][1], i - 1) /\ sync.payload = Frames[i][2]
          /\ sync.k \in 1 .. FrameLen(i) - 1 /\ sync.k <= Taken
          /\ At(Taken - sync.k + 1) = Sample(i, 1)
    BY <1>4, <1>6 DEF OpenInv
  <2>2. f.header = sync.header /\ f.payload = sync.payload /\ f.k = sync.k + 1
    <3>1. f = [sync EXCEPT !.k = @ + 1,
                           !.intact = @ /\ s = <<sync.header, sync.payload, sync.k + 1>>]
      BY <1>6 DEF SyncSample
    <3>2. sync \in OpenFrames
      BY <1>4, <1>6 DEF Types
    <3> QED BY <3>1, <3>2 DEF OpenFrames
  <2>3. f.k # FrameLen(i)
    BY <1>5, <2>1, <2>2 DEF Complete, FrameLen
  <2>4. FrameLen(i) \in Nat
    BY FrameFacts
  <2>5. f.k \in 1 .. FrameLen(i) - 1 /\ f.k <= Taken + 1 /\ Taken + 1 - f.k + 1 = Taken - sync.k + 1
    BY <1>2, <2>1, <2>2, <2>3, <2>4
  <2> QED BY <1>5, <2>1, <2>2, <2>5
<1>7. CASE sync = Seeking /\ StartsFrame(s)
  <2>1. PICK i \in DOMAIN Frames : s = Sample(i, 1)
    BY <1>2, <1>7, SampleKinds
  <2>2. sync' = Partial(i, 1)
    BY <1>2, <1>7, <2>1, FrameOpens
  <2>3. /\ sync'.header = Header(Frames[i][1], i - 1) /\ sync'.payload = Frames[i][2]
        /\ sync'.k = 1
    BY <2>2 DEF Partial
  <2>4. 1 \in 1 .. FrameLen(i) - 1 /\ 1 <= Taken + 1 /\ Taken + 1 - 1 + 1 = Taken + 1
    BY <1>2, FrameFacts
  <2> QED BY <1>2, <2>1, <2>3, <2>4
<1>8. CASE sync = Seeking /\ ~StartsFrame(s)
  <2>1. s = Noise /\ f = FalseDetection
    BY <1>5, <1>8 DEF SyncSample
  <2>2. FalseDetection.k = 1 /\ FalseDetection.intact = FALSE
    BY DEF FalseDetection, Open
  <2>3. HeaderLen # 1
    BY <1>5, <2>1, <2>2 DEF HeaderRefused
  <2>4. noise = 0
    BY <1>4, <2>3 DEF Calm
  <2>5. Taken + 1 \in 1 .. OutputLen(0, EmergedLen)
    BY <1>2, TakenFacts
  <2> QED BY <1>2, <1>4, <2>1, <2>4, <2>5, NoNoise
<1> QED BY <1>6, <1>7, <1>8

(* Frames that have begun go on. *)
LEMMA FeedKeepsHeeded ==
  ASSUME IInv, HeardInv, Feed, noise' = noise
  PROVE  HeededInv'
<1> DEFINE s == Head(pending)
<1>1. /\ pc \in {"feed", "last"} /\ pending # <<>>
      /\ UNCHANGED <<pc, lost, dump>>
  BY DEF Feed, radioVars
<1>2. /\ Taken' = Taken + 1 /\ Taken \in Nat /\ Taken + 1 <= OutputLen(0, EmergedLen)
      /\ s = At(Taken + 1) /\ s \in SampleSet /\ Take(s)
  BY FeedStep
<1> HIDE DEF s
<1>3. Taken + 1 \in 1 .. OutputLen(0, EmergedLen)
  BY <1>2, TakenFacts
<1>4. ASSUME Calm', NEW i \in DOMAIN Frames, NEW at \in Nat, Begun(i, at)',
             NEW n \in Nat, First(at) <= Taken + 1, n = Taken + 1 - First(at) + 1
      PROVE  Heeded(i, n)'
  <2>1. Calm /\ InProgress /\ Types /\ Begun(i, at) /\ Interpolation = 1 /\ HeededInv
    BY <1>1, <1>4 DEF Calm, InProgress, IInv, HeardInv, Begun
  <2>2. First(at) \in Nat /\ FrameLen(i) \in Nat /\ FrameLen(i) > 1
    BY FirstFacts, FrameFacts
  <2>3. Keeps
    BY <1>2, <2>1, TakeKeepsDelivered
  <2>4. ASSUME n - 1 < FrameLen(i)
        PROVE  s = Sample(i, n)
    <3>1. Taken + 1 - First(at) < FrameLen(i)
      BY <1>2, <1>4, <2>2, <2>4
    <3>2. At(Taken + 1) = Sample(i, Taken + 1 - First(at) + 1)
      BY <1>2, <1>3, <1>4, <2>1, <2>2, <3>1, BegunSample
    <3> QED BY <1>2, <1>4, <3>2
  <2>5. CASE n = 1
    <3>1. sync = Seeking
      <4>1. First(at) = Taken + 1
        BY <1>2, <1>4, <2>2, <2>5
      <4> QED BY <1>2, <2>1, <4>1, FreeForFrame
    <3>2. s = Sample(i, 1)
      BY <2>2, <2>4, <2>5
    <3>3. sync' = Partial(i, 1)
      BY <1>2, <3>1, <3>2, FrameOpens
    <3>4. ~(1 >= FrameLen(i))
      BY <2>2
    <3> QED BY <2>5, <3>3, <3>4 DEF Heeded
  <2>6. CASE n # 1
    <3>1. PICK k \in Nat : n = k + 1 /\ k = Taken - First(at) + 1 /\ First(at) <= Taken
      <4>1. /\ n - 1 \in Nat /\ n = (n - 1) + 1 /\ n - 1 = Taken - First(at) + 1
            /\ First(at) <= Taken
        BY <1>2, <1>4, <2>2, <2>6
      <4> QED BY <4>1
    <3>2. Heeded(i, k)
      BY <2>1, <3>1 DEF HeededInv
    <3>3. CASE k < FrameLen(i)
      <4>1. sync = Partial(i, k)
        BY <2>1, <3>2, <3>3 DEF Heeded
      <4>2. s = Sample(i, k + 1)
        <5>1. n - 1 = k
          BY <3>1
        <5> QED BY <2>4, <3>1, <3>3, <5>1
      <4>3. /\ k + 1 # FrameLen(i) => sync' = Partial(i, k + 1)
            /\ k + 1 = FrameLen(i) /\ i \in Own =>
                 \E j \in DOMAIN delivered' : delivered'[j] = Frames[i][2]
        BY <1>2, <2>1, <4>1, <4>2, FrameContinues
      <4>4. /\ k + 1 < FrameLen(i) => k + 1 # FrameLen(i)
            /\ k + 1 >= FrameLen(i) => k + 1 = FrameLen(i)
        BY <2>2, <3>3
      <4> QED BY <3>1, <4>3, <4>4 DEF Heeded
    <3>4. CASE ~(k < FrameLen(i))
      <4>1. k >= FrameLen(i) /\ n >= FrameLen(i)
        BY <2>2, <3>1, <3>4
      <4> QED BY <2>3, <3>2, <4>1, HeededLater
    <3> QED BY <3>3, <3>4
  <2> QED BY <2>5, <2>6
<1>5. ASSUME Calm', NEW i \in DOMAIN Frames, NEW at \in Nat, Begun(i, at)', First(at) <= Taken'
      PROVE  Heeded(i, Taken - First(at) + 1)'
  <2>1. PICK n \in Nat : n = Taken + 1 - First(at) + 1
    <3>1. Taken + 1 - First(at) + 1 \in Nat
      BY <1>2, <1>5, FirstFacts
    <3> QED BY <3>1
  <2>2. Heeded(i, n)'
    BY <1>2, <1>4, <1>5, <2>1
  <2>3. n = Taken' - First(at) + 1
    BY <1>2, <2>1, FirstFacts
  <2> QED BY <2>2, <2>3 DEF First, Heeded
<1> QED BY <1>5 DEF HeededInv, First

LEMMA FeedKeepsHeard ==
  ASSUME IInv, HeardInv, Feed, UNCHANGED <<ahead, noise>>
  PROVE  HeardInv'
<1>1. UNCHANGED <<pc, air, rpos, lost, dump>>
  BY DEF Feed, mediumVars, radioVars
<1>2. SpacedInv'
  BY <1>1, SpacedUntouched DEF HeardInv
<1>3. ReadInv'
  BY <1>1, ReadUntouched DEF HeardInv
<1> QED BY <1>2, <1>3, FeedKeepsOpen, FeedKeepsHeeded DEF HeardInv

(* The zeros after the last sample deliver nothing that is not complete.    *)
LEMMA DrainKeepsHeard ==
  ASSUME IInv, HeardInv, Drain, UNCHANGED <<ahead, noise>>
  PROVE  HeardInv'
<1>1. /\ pc = "last" /\ pending = <<>> /\ Take(Zero)
      /\ UNCHANGED <<pc, pending, air, rpos, lost, dump>>
  BY DEF Drain, mediumVars, radioVars
<1>2. SpacedInv'
  BY <1>1, SpacedUntouched DEF HeardInv
<1>3. ReadInv'
  BY <1>1, ReadUntouched DEF HeardInv
<1>4. ~InProgress'
  BY <1>1 DEF InProgress
<1>5. OpenInv'
  BY <1>4 DEF OpenInv
<1>6. Taken' = Taken /\ Taken \in Nat
  BY <1>1, TakenFacts DEF Taken, EmergedLen
<1>7. Keeps
  BY <1>1, TakeKeepsDelivered DEF IInv
<1>8. ASSUME Calm', NEW i \in DOMAIN Frames, NEW at \in Nat, Begun(i, at)', First(at) <= Taken'
      PROVE  Heeded(i, Taken - First(at) + 1)'
  <2>1. Calm /\ Begun(i, at) /\ HeededInv
    BY <1>1, <1>8 DEF Calm, HeardInv, Begun
  <2>2. PICK k \in Nat : k = Taken - First(at) + 1
    <3>1. Taken - First(at) + 1 \in Nat
      BY <1>6, <1>8, FirstFacts
    <3> QED BY <3>1
  <2>3. Heeded(i, k)
    BY <1>6, <1>8, <2>1, <2>2 DEF HeededInv
  <2>4. Heeded(i, k)'
    <3>1. FrameLen(i) \in Nat
      BY FrameFacts
    <3>2. CASE k >= FrameLen(i)
      BY <1>7, <2>3, <3>2, HeededLater
    <3>3. CASE ~(k >= FrameLen(i))
      BY <1>4, <3>3 DEF Heeded
    <3> QED BY <3>2, <3>3
  <2>5. k = Taken' - First(at) + 1
    BY <1>6, <2>2
  <2> QED BY <2>4, <2>5 DEF First, Heeded
<1>9. HeededInv'
  BY <1>8 DEF HeededInv, First
<1> QED BY <1>2, <1>3, <1>5, <1>9 DEF HeardInv
-----------------------------------------------------------------------------
(* Nothing is missed, from the beginning to the end. *)

LEMMA InitHeard == ReceptionInit => HeardInv
<1> SUFFICES ASSUME ReceptionInit PROVE HeardInv
  OBVIOUS
<1>1. /\ pc = "created" /\ rpos = 0 /\ lost = 0 /\ dump = <<>> /\ pending = <<>>
      /\ sync = Seeking /\ ahead = Script /\ noise = 0 /\ air = <<>>
  BY DEF ReceptionInit, Init
<1>2. Medium = Script
  <2>1. Script \in Seq(SampleSet)
    BY ScriptInOrder
  <2>2. <<>> \o Script = Script
    BY <2>1, ConcatEmptySeq
  <2> QED BY <1>1, <2>2 DEF Medium
<1>3. SpacedInv
  BY <1>1, <1>2, ScriptSpaced DEF SpacedInv
<1>4. ReadInv
  BY <1>1 DEF ReadInv
<1>5. OpenInv
  BY <1>1 DEF OpenInv
<1>6. ASSUME Calm PROVE Taken = 0
  <2>1. EmergedLen = 0 /\ Len(pending) = 0
    BY <1>1 DEF EmergedLen
  <2>2. OutputLen(0, 0) = 0
    <3>1. OutputLen(0, 0) = 0 \div Decimation
      BY <1>6, Decimated DEF Calm
    <3>2. (0 * Decimation + 0) \div Decimation = 0
      <4>1. 0 \in 0 .. Decimation - 1 /\ Decimation \in Nat \ {0}
        BY SamplesAssumption
      <4> QED BY <4>1, DivisionUnique
    <3>3. 0 * Decimation + 0 = 0
      BY SamplesAssumption
    <3> QED BY <3>1, <3>2, <3>3
  <2> QED BY <2>1, <2>2 DEF Taken
<1>7. HeededInv
  <2> SUFFICES ASSUME Calm, NEW at \in Nat PROVE ~(First(at) <= Taken)
    BY DEF HeededInv
  <2> QED BY <1>6, FirstFacts
<1> QED BY <1>3, <1>4, <1>5, <1>7 DEF HeardInv

LEMMA NextHeard == IInv /\ HeardInv /\ [ReceptionNext]_allVars => HeardInv'
<1> SUFFICES ASSUME IInv, HeardInv, [ReceptionNext]_allVars PROVE HeardInv'
  OBVIOUS
<1>1. CASE Receiver
  <2>1. UNCHANGED <<ahead, noise>>
    BY <1>1 DEF Receiver
  <2>2. CASE Start \/ TestStop \/ EndOfInput \/ BlockDone \/ Return \/ StopAll \/ StopTransfer \/ Tick
    BY <2>1, <2>2, CalmStepsKeepHeard
  <2>3. ASSUME NEW n \in Readable, TimeOut(n) \/ ReceiveBlock(n) PROVE HeardInv'
    BY <2>1, <2>3, TimeOutKeepsHeard, ReceiveBlockKeepsHeard
  <2>4. CASE Flush
    BY <2>1, <2>4, FlushKeepsHeard
  <2>5. CASE Feed
    BY <2>1, <2>5, FeedKeepsHeard
  <2>6. CASE Drain
    BY <2>1, <2>6, DrainKeepsHeard
  <2>7. CASE Overflow
    BY <2>1, <2>7, OverflowKeepsHeard
  <2> QED BY <1>1, <2>2, <2>3, <2>4, <2>5, <2>6, <2>7 DEF Receiver, ThreadStep, Environment
<1>2. CASE Arrive \/ ArriveNoise \/ Close
  BY <1>2, MediumStepsKeepHeard
<1>3. CASE UNCHANGED <<vars, ahead, noise>>
  <2> USE DEF vars, mediumVars, radioVars, resamplerVars, syncVars, clockVars
  <2>1. SpacedInv' /\ ReadInv'
    BY <1>3, SpacedUntouched, ReadUntouched DEF HeardInv
  <2>2. EmergedLen' = EmergedLen /\ (InProgress' => InProgress)
    BY <1>3 DEF EmergedLen, InProgress
  <2>3. lost \in Nat /\ noise \in Nat
    BY ReceiveAssumption DEF IInv, Types, HeardInv, SpacedInv
  <2>4. lost' >= lost /\ noise' >= noise /\ noise' \in Nat /\ lost' \in Nat
    BY <1>3, <2>3
  <2> QED BY <1>3, <2>1, <2>2, <2>4, StillStep
<1> QED BY <1>1, <1>2, <1>3 DEF ReceptionNext, Returned, allVars

(* A frame that was heard is one that began, and the resampler made all its *)
(* samples by the end. *)
LEMMA HeardBegan ==
  ASSUME IInv, HeardInv, Calm, pc = "done", NEW i \in DOMAIN Frames, Heard(i)
  PROVE  \E at \in Nat : Begun(i, at) /\ First(at) + FrameLen(i) <= Taken + 1
<1> USE SamplesAssumption
<1> DEFINE raw == Raw(FrameOf(i))
           m == FrameLen(i)
<1>1. /\ m \in Nat /\ m > 1 /\ m * Decimation \in Nat /\ Decimation <= m * Decimation
      /\ FrameOf(i) = [k \in 1 .. m |-> Sample(i, k)]
  <2>1. m \in Nat /\ m > 1 /\ FrameOf(i) = [k \in 1 .. m |-> Sample(i, k)]
    BY FrameFacts
  <2> HIDE DEF m
  <2>2. m * Decimation \in Nat /\ Decimation <= m * Decimation
    BY <2>1
  <2> QED BY <2>1, <2>2
<1>2. /\ Len(raw) = m * Decimation
      /\ \A r \in 1 .. m * Decimation : raw[r] = Sample(i, (r - 1) \div Decimation + 1)
  <2>1. Len(FrameOf(i)) = m
    BY <1>1
  <2>2. raw = [r \in 1 .. m * Decimation |-> FrameOf(i)[(r - 1) \div Decimation + 1]]
    BY <2>1 DEF Raw
  <2>3. ASSUME NEW r \in 1 .. m * Decimation
        PROVE  (r - 1) \div Decimation + 1 \in 1 .. m
    <3> DEFINE a == (r - 1) \div Decimation + 1
    <3>1. a \in Nat /\ a > 0 /\ (a - 1) * Decimation < r
      BY <1>1, RepeatedPlace
    <3> HIDE DEF a, m
    <3>2. ~(m + 1 <= a)
      <4> SUFFICES ASSUME m + 1 <= a PROVE FALSE
        OBVIOUS
      <4>1. m * Decimation <= (a - 1) * Decimation /\ (a - 1) * Decimation \in Nat
        <5>1. m <= a - 1 /\ a - 1 \in Nat
          BY <1>1, <3>1
        <5> QED BY <1>1, <5>1
      <4> QED BY <1>1, <3>1, <4>1
    <3>3. a \in 1 .. m
      BY <1>1, <3>1, <3>2
    <3> QED BY <3>3 DEF a
  <2> HIDE DEF raw, m
  <2>4. Len(raw) = m * Decimation
    BY <1>1, <2>2
  <2>5. ASSUME NEW r \in 1 .. m * Decimation
        PROVE  raw[r] = Sample(i, (r - 1) \div Decimation + 1)
    BY <1>1, <2>2, <2>3
  <2> QED BY <2>4, <2>5
<1>3. /\ Types /\ Interpolation = 1 /\ lost = 0 /\ pending = <<>>
      /\ dump \in Seq(SampleSet) /\ Len(dump) \in Nat
  BY DEF IInv, Calm, Types, ResamplerInv
<1> HIDE DEF raw
<1>4. PICK at \in 0 .. Len(dump) - Len(raw) :
        \A k \in 1 .. Len(raw) : dump[at + k] = raw[k]
  BY DEF Heard, Within, raw
<1> HIDE DEF m
<1>5. /\ at \in Nat /\ at + m * Decimation <= Len(dump)
      /\ \A r \in 1 .. m * Decimation : dump[at + r] = Sample(i, (r - 1) \div Decimation + 1)
  BY <1>1, <1>2, <1>3, <1>4
<1>6. Run(dump, at, i)
  <2>1. ASSUME NEW k \in 1 .. Decimation PROVE dump[at + k] = Sample(i, 1)
    <3>1. k \in 1 .. m * Decimation
      BY <1>1
    <3>2. (k - 1) \div Decimation = 0
      <4>1. k - 1 \in 0 .. Decimation - 1 /\ 0 * Decimation + (k - 1) = k - 1
        OBVIOUS
      <4>2. (0 * Decimation + (k - 1)) \div Decimation = 0
        BY <4>1, DivisionUnique
      <4> QED BY <4>1, <4>2
    <3>3. dump[at + k] = Sample(i, (k - 1) \div Decimation + 1)
      BY <1>5, <3>1
    <3> QED BY <3>2, <3>3
  <2>2. at + Decimation <= Len(dump)
    BY <1>1, <1>3, <1>5
  <2> QED BY <2>1, <2>2 DEF Run
<1>7. \A x \in DOMAIN dump : x <= at => dump[x] # Sample(i, 1)
  BY <1>3, <1>5, <1>6, DumpSpaced DEF Single
<1>8. Begun(i, at)
  BY <1>5, <1>7 DEF Begun, m
<1>9. Taken = (Delay + Len(dump)) \div Decimation /\ Delay + Len(dump) \in Nat
  <2>1. EmergedLen = Delay + Len(dump) /\ Len(pending) = 0
    BY <1>3 DEF EmergedLen
  <2>2. Delay + Len(dump) \in Nat
    BY <1>3
  <2>3. OutputLen(0, Delay + Len(dump)) = (Delay + Len(dump)) \div Decimation
    BY <1>3, <2>2, Decimated
  <2>4. (Delay + Len(dump)) \div Decimation \in Nat
    BY <2>2, Division
  <2> QED BY <2>1, <2>2, <2>3, <2>4 DEF Taken
<1>10. m + (Delay + at) \div Decimation <= Taken /\ (Delay + at) \div Decimation \in Nat /\ Taken \in Nat
  <2> DEFINE u == Delay + at
             y == Delay + Len(dump)
             w == m * Decimation + u
  <2>1. u \in Nat /\ y \in Nat /\ w \in Nat /\ w <= y
    BY <1>1, <1>3, <1>5
  <2> HIDE DEF u, y
  <2>2. w \div Decimation = m + u \div Decimation /\ u \div Decimation \in Nat
    BY <1>1, <2>1, DivisionOfSum, Division
  <2> HIDE DEF w
  <2>3. w \div Decimation <= y \div Decimation
    BY <2>1, QuotientMonotone
  <2>4. y \div Decimation \in Nat
    BY <2>1, Division
  <2>5. Taken = y \div Decimation
    BY <1>9 DEF y
  <2> QED BY <2>2, <2>3, <2>4, <2>5 DEF u
<1>11. First(at) + m <= Taken + 1
  <2>1. First(at) = (Delay + at) \div Decimation + 1
    BY DEF First
  <2> QED BY <1>1, <1>10, <2>1
<1> QED BY <1>5, <1>8, <1>11 DEF m

(* When the reception has ended, every frame for the receiver that was read *)
(* to its last sample has been delivered, also the one that was still in    *)
(* the filters: receive_frames() flushes the resampler and completes the    *)
(* open frame before it returns.                                            *)
THEOREM AlwaysHeardIsDelivered == ReceptionSpec => []HeardIsDelivered
<1>1. ASSUME IInv, HeardInv PROVE HeardIsDelivered
  <2> SUFFICES ASSUME pc = "done", lost = 0, HeaderLen = 1 \/ noise = 0, Interpolation = 1,
                      NEW i \in Own, Heard(i)
               PROVE  \E j \in DOMAIN delivered : delivered[j] = Frames[i][2]
    BY DEF HeardIsDelivered
  <2>1. Calm /\ i \in DOMAIN Frames
    BY DEF Calm, Own
  <2>2. PICK at \in Nat : Begun(i, at) /\ First(at) + FrameLen(i) <= Taken + 1
    BY <1>1, <2>1, HeardBegan
  <2>3. /\ First(at) \in Nat /\ FrameLen(i) \in Nat /\ FrameLen(i) > 1 /\ Taken \in Nat
    BY <1>1, <2>1, FirstFacts, FrameFacts, TakenFacts
  <2>4. First(at) <= Taken /\ Taken - First(at) + 1 >= FrameLen(i)
    BY <2>2, <2>3
  <2>5. Heeded(i, Taken - First(at) + 1)
    BY <1>1, <2>1, <2>2, <2>4 DEF HeardInv, HeededInv
  <2> QED BY <2>4, <2>5 DEF Heeded
<1>2. ReceptionSpec => [](IInv /\ HeardInv)
  <2>1. ReceptionInit => IInv /\ HeardInv
    BY InitIInv, InitHeard
  <2>2. (IInv /\ HeardInv) /\ [ReceptionNext]_allVars => (IInv /\ HeardInv)'
    BY NextIInv, NextHeard
  <2> QED BY <2>1, <2>2, PTL DEF ReceptionSpec
<1> QED BY <1>1, <1>2, PTL
=============================================================================
