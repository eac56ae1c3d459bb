---------------------------- MODULE OperatorProofs ----------------------------
(***************************************************************************)
(* Proofs about what the library computes without a state: the bytes of a   *)
(* header, then the sizes derived from the options.                         *)
(***************************************************************************)
EXTENDS HeaderCodec, Parameters, SequenceTheorems, TLAPS

(* 2^32 is a number like any other: the provers need not know which. *)
LEMMA WordNat == Word \in Nat
  BY DEF Word

(* What the range of an unsigned int amounts to. *)
LEMMA UnsignedNat ==
  ASSUME NEW c \in Unsigned
  PROVE  c \in Nat /\ c < Word
<1>1. c \in 0 .. Word - 1
  BY DEF Unsigned
<1> QED BY <1>1, WordNat

(* A number is 256 times the part above its low byte, plus this byte. *)
LEMMA ByteDivision ==
  ASSUME NEW n \in Nat
  PROVE  /\ n = 256 * Upper(n) + (n % 256)
         /\ n % 256 \in Byte /\ Upper(n) \in Nat
  BY DEF Byte, Upper

(* A number below 256 times m has an upper part below m. *)
LEMMA UpperBound ==
  ASSUME NEW n \in Nat, NEW m \in Nat, n < 256 * m
  PROVE  Upper(n) < m
<1>1. n = 256 * Upper(n) + (n % 256) /\ n % 256 \in Byte /\ Upper(n) \in Nat
  BY ByteDivision
<1>2. n >= 256 * Upper(n)
  BY <1>1 DEF Byte
<1> QED BY <1>1, <1>2

(* The four bytes of a counter, and the sum they stand for. *)
LEMMA Digits ==
  ASSUME NEW c \in Unsigned
  PROVE  \E b1, b2, b3, b4 \in Byte :
           /\ SetCounter(c) = <<b1, b2, b3, b4>>
           /\ c = b1 * (256 * 256 * 256) + b2 * (256 * 256) + b3 * 256 + b4
<1> DEFINE q1 == Upper(c)
           q2 == Upper(q1)
           q3 == Upper(q2)
<1>1. c \in Nat /\ c < 256 * (256 * (256 * 256))
  <2>1. Word = 256 * (256 * (256 * 256))
    BY DEF Word
  <2> QED BY <2>1, UnsignedNat
<1>2. c = 256 * q1 + (c % 256) /\ c % 256 \in Byte /\ q1 \in Nat
  BY <1>1, ByteDivision
<1>3. q1 = 256 * q2 + (q1 % 256) /\ q1 % 256 \in Byte /\ q2 \in Nat
  BY <1>2, ByteDivision
<1>4. q2 = 256 * q3 + (q2 % 256) /\ q2 % 256 \in Byte /\ q3 \in Nat
  BY <1>3, ByteDivision
<1>5. q3 < 256
  <2>1. q1 < 256 * (256 * 256)
    BY <1>1, UpperBound
  <2>2. q2 < 256 * 256
    BY <1>2, <2>1, UpperBound
  <2> QED BY <1>3, <2>2, UpperBound
<1>6. q3 % 256 = q3 /\ q3 \in Byte
  <2>1. q3 \in Nat
    BY <1>4
  <2> HIDE DEF q3
  <2> QED BY <1>5, <2>1 DEF Byte
<1>7. SetCounter(c) = <<q3, q2 % 256, q1 % 256, c % 256>>
  BY <1>6 DEF SetCounter
<1>8. c = q3 * (256 * 256 * 256) + (q2 % 256) * (256 * 256) + (q1 % 256) * 256 + (c % 256)
  <2> DEFINE b2 == q2 % 256
             b3 == q1 % 256
             b4 == c % 256
  <2>1. c = 256 * q1 + b4 /\ q1 = 256 * q2 + b3 /\ q2 = 256 * q3 + b2
    BY <1>2, <1>3, <1>4
  <2>2. b2 \in Nat /\ b3 \in Nat /\ b4 \in Nat /\ q1 \in Nat /\ q2 \in Nat /\ q3 \in Nat
    <3>1. \A b \in Byte : b \in Nat
      BY DEF Byte
    <3> QED BY <1>2, <1>3, <1>4, <3>1
  <2> HIDE DEF b2, b3, b4, q1, q2, q3
  <2>3. c = q3 * (256 * 256 * 256) + b2 * (256 * 256) + b3 * 256 + b4
    BY <2>1, <2>2
  <2> QED BY <2>3 DEF b2, b3, b4
<1> QED BY <1>2, <1>3, <1>4, <1>6, <1>7, <1>8

(* The receiver reads the number that the sender wrote, for all the numbers *)
(* of 32 bits, those whose highest byte makes an int negative included.     *)
THEOREM CounterRoundTrip == \A c \in Unsigned : GetCounter(SetCounter(c)) = c
<1> SUFFICES ASSUME NEW c \in Unsigned
             PROVE  GetCounter(SetCounter(c)) = c
  OBVIOUS
<1>1. PICK b1, b2, b3, b4 \in Byte :
        /\ SetCounter(c) = <<b1, b2, b3, b4>>
        /\ c = b1 * (256 * 256 * 256) + b2 * (256 * 256) + b3 * 256 + b4
  BY Digits
<1>2. GetCounter(SetCounter(c)) =
        ToUnsigned(ToInt(b1 * (256 * 256 * 256)) + b2 * (256 * 256) + b3 * 256 + b4)
  BY <1>1 DEF GetCounter
<1> DEFINE high == b1 * (256 * 256 * 256)
           low == b2 * (256 * 256) + b3 * 256 + b4
<1>3. high \in Nat /\ low \in Nat /\ c = high + low /\ c \in Nat /\ c < Word
  BY <1>1, UnsignedNat DEF Byte
<1>4. GetCounter(SetCounter(c)) = ToUnsigned(ToInt(high) + low)
  <2>1. ToInt(high) \in Int
    BY <1>3, WordNat DEF ToInt
  <2>2. ToInt(high) + low = ToInt(high) + b2 * (256 * 256) + b3 * 256 + b4
    <3> HIDE DEF high
    <3> QED BY <2>1 DEF Byte
  <2> QED BY <1>2, <2>2
<1> HIDE DEF high, low
<1>5. CASE high >= Word - high
  <2>1. ToInt(high) + low = c - Word
    BY <1>3, <1>5, WordNat DEF ToInt
  <2>2. ToUnsigned(c - Word) = c
    BY <1>3, WordNat DEF ToUnsigned
  <2> QED BY <1>4, <2>1, <2>2
<1>6. CASE ~(high >= Word - high)
  <2>1. ToInt(high) + low = c
    BY <1>3, <1>6 DEF ToInt
  <2>2. ToUnsigned(c) = c
    BY <1>3 DEF ToUnsigned
  <2> QED BY <1>4, <2>1, <2>2
<1> QED BY <1>5, <1>6

(* memcmp() on the 4 bytes of two identifiers compares the identifiers: the *)
(* padding of a short one is not taken for a character.                     *)
THEOREM IdBytesInjective ==
  \A id1, id2 \in Identifier : IdBytes(id1) = IdBytes(id2) => id1 = id2
<1> SUFFICES ASSUME NEW id1 \in Identifier, NEW id2 \in Identifier,
                    IdBytes(id1) = IdBytes(id2)
             PROVE  id1 = id2
  OBVIOUS
<1>1. /\ id1 \in Seq(1 .. 255) /\ Len(id1) \in Nat /\ Len(id1) <= 4
      /\ id2 \in Seq(1 .. 255) /\ Len(id2) \in Nat /\ Len(id2) <= 4
  BY DEF Identifier
<1>2. \A i \in 1 .. 4 : (IF i <= Len(id1) THEN id1[i] ELSE 0)
                        = (IF i <= Len(id2) THEN id2[i] ELSE 0)
  BY DEF IdBytes
<1>3. /\ \A i \in 1 .. Len(id1) : id1[i] \in 1 .. 255
      /\ \A i \in 1 .. Len(id2) : id2[i] \in 1 .. 255
  BY <1>1, ElementOfSeq
<1>4. Len(id1) = Len(id2)
  <2>0. \A a, b \in Nat : a < b /\ b <= 4 => b \in 1 .. 4 /\ b \in 1 .. b /\ ~(b <= a)
    OBVIOUS
  <2>1. ASSUME Len(id1) < Len(id2) PROVE FALSE
    <3>1. Len(id2) \in 1 .. 4 /\ Len(id2) \in 1 .. Len(id2) /\ ~(Len(id2) <= Len(id1))
      BY <1>1, <2>0, <2>1
    <3>2. 0 = id2[Len(id2)]
      BY <1>1, <1>2, <3>1
    <3>3. 0 \notin 1 .. 255
      OBVIOUS
    <3> QED BY <1>3, <3>1, <3>2, <3>3
  <2>2. ASSUME Len(id2) < Len(id1) PROVE FALSE
    <3>1. Len(id1) \in 1 .. 4 /\ Len(id1) \in 1 .. Len(id1) /\ ~(Len(id1) <= Len(id2))
      BY <1>1, <2>0, <2>2
    <3>2. 0 = id1[Len(id1)]
      BY <1>1, <1>2, <3>1
    <3>3. 0 \notin 1 .. 255
      OBVIOUS
    <3> QED BY <1>3, <3>1, <3>2, <3>3
  <2> QED BY <1>1, <2>1, <2>2
<1>5. \A i \in 1 .. Len(id1) : id1[i] = id2[i]
  <2>1. \A i \in 1 .. Len(id1) : i \in 1 .. 4 /\ i <= Len(id1) /\ i <= Len(id2)
    BY <1>1, <1>4
  <2> QED BY <1>2, <2>1
<1> QED BY <1>1, <1>4, <1>5, SeqEqual

(* A header determines the id and the number it was made of. *)
THEOREM HeaderInjective ==
  \A id1, id2 \in Identifier : \A c1, c2 \in Unsigned :
    EncodeHeader(id1, c1) = EncodeHeader(id2, c2) => id1 = id2 /\ c1 = c2
<1> SUFFICES ASSUME NEW id1 \in Identifier, NEW id2 \in Identifier,
                    NEW c1 \in Unsigned, NEW c2 \in Unsigned,
                    EncodeHeader(id1, c1) = EncodeHeader(id2, c2)
             PROVE  id1 = id2 /\ c1 = c2
  OBVIOUS
<1>1. \A i \in 1 .. 8 : EncodeHeader(id1, c1)[i] = EncodeHeader(id2, c2)[i]
  OBVIOUS
<1>2. \A i \in 1 .. 4 : IdBytes(id1)[i] = IdBytes(id2)[i]
  BY <1>1 DEF EncodeHeader
<1>3. IdBytes(id1) = IdBytes(id2)
  BY <1>2 DEF IdBytes
<1>4. /\ SetCounter(c1)[1] = SetCounter(c2)[1] /\ SetCounter(c1)[2] = SetCounter(c2)[2]
      /\ SetCounter(c1)[3] = SetCounter(c2)[3] /\ SetCounter(c1)[4] = SetCounter(c2)[4]
  <2>1. \A i \in {5, 6, 7, 8} : SetCounter(c1)[i - 4] = SetCounter(c2)[i - 4]
    BY <1>1 DEF EncodeHeader
  <2> QED BY <2>1
<1>5. c1 = c2
  <2>1. PICK a1, a2, a3, a4 \in Byte :
          /\ SetCounter(c1) = <<a1, a2, a3, a4>>
          /\ c1 = a1 * (256 * 256 * 256) + a2 * (256 * 256) + a3 * 256 + a4
    BY Digits
  <2>2. PICK b1, b2, b3, b4 \in Byte :
          /\ SetCounter(c2) = <<b1, b2, b3, b4>>
          /\ c2 = b1 * (256 * 256 * 256) + b2 * (256 * 256) + b3 * 256 + b4
    BY Digits
  <2>3. a1 = b1 /\ a2 = b2 /\ a3 = b3 /\ a4 = b4
    BY <1>4, <2>1, <2>2
  <2> QED BY <2>1, <2>2, <2>3
<1> QED BY <1>3, <1>5, IdBytesInjective
-----------------------------------------------------------------------------
(* A quotient is at least n when the dividend is at least n divisors. *)
LEMMA QuotientAtLeast ==
  ASSUME NEW x \in Nat, NEW d \in Positive, NEW n \in Nat, n * d <= x
  PROVE  x \div d \in Nat /\ n <= x \div d
<1> DEFINE q == x \div d
<1>1. q \in Nat /\ x < q * d + d
  BY DEF Positive
<1> SUFFICES ASSUME q + 1 <= n PROVE FALSE
  BY <1>1
<1> HIDE DEF q
<1>2. (q + 1) * d <= n * d
  BY <1>1 DEF Positive
<1>3. (q + 1) * d = q * d + d
  BY <1>1 DEF Positive
<1> QED BY <1>1, <1>2, <1>3 DEF Positive

(* 20 blocks last at least a second, and a block has samples. *)
LEMMA BlockSamples ==
  ASSUME NEW bitRate \in Positive, NEW spreading \in Nat, spreading >= 2
  PROVE  /\ FrameSampleRate(bitRate, spreading) \in Positive
         /\ FrameSamplesSize(bitRate, spreading) \in Positive
         /\ FrameSampleRate(bitRate, spreading)
              <= 20 * FrameSamplesSize(bitRate, spreading)
<1> DEFINE r == FrameSampleRate(bitRate, spreading)
<1>1. r \in Positive
  <2>1. spreading * 2 \in Nat /\ spreading * 2 >= 4
    OBVIOUS
  <2> DEFINE samplesPerBit == spreading * 2
  <2> HIDE DEF samplesPerBit
  <2>2. samplesPerBit \in Nat /\ samplesPerBit >= 4 => bitRate * samplesPerBit \in Positive
    BY DEF Positive
  <2> QED BY <2>1, <2>2 DEF FrameSampleRate, samplesPerBit
<1> HIDE DEF r
<1>2. (r + 19) \div 20 \in Positive /\ r <= 20 * ((r + 19) \div 20)
  BY <1>1 DEF Positive
<1>3. FrameSamplesSize(bitRate, spreading) = (r + 19) \div 20
  <2>1. r + 20 - 1 = r + 19
    BY <1>1 DEF Positive
  <2> QED BY <2>1 DEF FrameSamplesSize, Ceiling, r
<1> QED BY <1>1, <1>2, <1>3 DEF r

(* Whatever the bit rate, a frame carries from 16 to 8000 bytes. *)
THEOREM PayloadSizeBounds == \A bitRate \in Nat : PayloadSize(bitRate) \in 16 .. 8000
<1> SUFFICES ASSUME NEW bitRate \in Nat PROVE PayloadSize(bitRate) \in 16 .. 8000
  OBVIOUS
<1>1. (bitRate \div 8) \div 10 \in Nat
  <2>1. bitRate \div 8 \in Nat
    OBVIOUS
  <2> QED BY <2>1
<1> QED BY <1>1 DEF PayloadSize, Least, Most

(* With the options that dsss_transfer_create_callback() accepts and a      *)
(* sample rate of 20 or more, no buffer is empty: receive_from_radio() asks *)
(* for samples, so that a read that gives none is the end of the input, and *)
(* what send_frames() works with is what SendAssumption requires.           *)
THEOREM BuffersNotEmpty ==
  ASSUME NEW rate \in Nat, rate >= 20, NEW delay \in Nat,
         NEW bitRate \in Positive, NEW spreading \in Nat, spreading >= 2
  PROVE  /\ FrameSamplesSize(bitRate, spreading) \in Positive
         /\ ReceiveSamplesSize(rate, bitRate, spreading) \in Positive
         /\ SendSamplesSize(rate, bitRate, spreading, delay) \in Positive
<1> DEFINE r == FrameSampleRate(bitRate, spreading)
           f == FrameSamplesSize(bitRate, spreading)
<1>1. r \in Positive /\ f \in Positive /\ r <= 20 * f
  BY BlockSamples
<1> HIDE DEF r, f
<1>2. f * rate \in Nat /\ r <= f * rate
  <2>1. f * 20 <= f * rate
    BY <1>1 DEF Positive
  <2> QED BY <1>1, <2>1 DEF Positive
<1>3. (f * rate) \div r \in Nat /\ 1 <= (f * rate) \div r
  <2>1. 1 * r <= f * rate
    BY <1>1, <1>2 DEF Positive
  <2> QED BY <1>1, <1>2, <2>1, QuotientAtLeast
<1>4. LET x == (f + delay) * rate + r - 1
      IN  x \div r \in Nat /\ 1 <= x \div r
  <2> DEFINE x == (f + delay) * rate + r - 1
  <2>1. delay * rate \in Nat /\ (f + delay) * rate = f * rate + delay * rate
    BY <1>1 DEF Positive
  <2>2. x \in Nat /\ 1 * r <= x
    BY <1>1, <1>2, <2>1 DEF Positive
  <2> HIDE DEF x
  <2>3. x \div r \in Nat /\ 1 <= x \div r
    BY <1>1, <2>2, QuotientAtLeast
  <2> QED BY <2>3 DEF x
<1>5. ReceiveSamplesSize(rate, bitRate, spreading) \in Positive
  BY <1>3 DEF ReceiveSamplesSize, Positive, r, f
<1>6. SendSamplesSize(rate, bitRate, spreading, delay) \in Positive
  BY <1>4 DEF SendSamplesSize, Ceiling, Positive, r, f
<1> QED BY <1>1, <1>5, <1>6 DEF f

(* A sample rate of 50 or more given to dsss_transfer_create_callback()     *)
(* leaves one of 20 or more, after a correction of at most 10 % and, for    *)
(* audio, the division by two; without such a bound it may become 0.        *)
THEOREM SampleRateKept ==
  ASSUME NEW rate \in Nat, rate >= 50, NEW ppm \in Int, 10 * ppm <= Million,
         NEW audio \in BOOLEAN
  PROVE  SampleRate(rate, ppm, audio) \in Nat /\ SampleRate(rate, ppm, audio) >= 20
<1> DEFINE k == Million - ppm
           c == Corrected(rate, ppm)
<1>1. Million \in Positive /\ k \in Nat /\ 9 * Million <= 10 * k
  BY SMT DEF Million, Positive
<1> HIDE DEF k
<1>2. rate * k \in Nat /\ 45 * Million <= rate * k
  <2>1. 50 * k <= rate * k
    BY <1>1, SMT
  <2> QED BY <1>1, <2>1, SMT DEF Positive
<1>3. c \in Nat /\ 45 <= c
  <2>1. (rate * k) \div Million \in Nat /\ 45 <= (rate * k) \div Million
    BY <1>1, <1>2, QuotientAtLeast
  <2> QED BY <2>1 DEF Corrected, k
<1> HIDE DEF c
<1>4. c \div 2 \in Nat /\ c \div 2 >= 20
  BY <1>3, SMT
<1> QED BY <1>3, <1>4 DEF SampleRate, c

(* The rate that does become 0, whatever the correction downwards. *)
THEOREM AudioRateOfOne ==
  ASSUME NEW ppm \in Nat, ppm <= Million
  PROVE  SampleRate(1, ppm, TRUE) = 0
<1>1. Corrected(1, ppm) \in {0, 1}
  BY SMT DEF Corrected, Million
<1>2. \A c \in {0, 1} : c \div 2 = 0
  BY SMT
<1> QED BY <1>1, <1>2 DEF SampleRate
=============================================================================
