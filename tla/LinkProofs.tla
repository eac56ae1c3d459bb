------------------------------ MODULE LinkProofs ------------------------------
(***************************************************************************)
(* Proofs about the link of a sender and a receiver, for every size of      *)
(* blocks, payloads, filters and buffers, every ratio that LinkAssumption   *)
(* admits and any data: what it delivers, whichever process is stopped or   *)
(* fails, and when.                                                         *)
(***************************************************************************)
EXTENDS DataLink, SamplesProofs

(* What a frame may carry, and the samples of a frame. *)
Payloads == {S!Units(first, n) : first \in 0 .. DataSize, n \in 1 .. PayloadSize}

(* Sample k of the frame that carries the payload under the number. *)
Sample(number, payload, k) == <<Header(Id, number), payload, k>>

SampleSet == {Zero} \cup {Sample(number, payload, k) :
                            number \in Nat, payload \in Payloads, k \in Nat}

FrameLen(i) == HeaderLen + Len(sent[i])
-----------------------------------------------------------------------------
(* The sample of a frame that sample x of air is made from, and the last    *)
(* sample of air that is made from sample n.                                *)
Cell(x) == Position(0, x)

Ends(n) == OutputLen(0, n)

(* Everything that the sender has made, in samples of frames: what the      *)
(* resampler has given out, what is in its filter and what waits for it.    *)
Out == Cell(Len(air))

Made == Out + Delay + Len(frame)

Stream == [j \in 1 .. Made |->
             IF j <= Out THEN air[Ends(j)]
             ELSE IF j <= Out + Delay THEN senderLine[j - Out]
             ELSE frame[j - (Out + Delay)]]

SenderTypes ==
  /\ avail \in 0 .. DataSize /\ pos \in 0 .. avail /\ counter \in Nat
  /\ sent \in Seq(Payloads)
  /\ frame \in Seq(SampleSet) /\ senderLine \in Seq(SampleSet) /\ air \in Seq(SampleSet)
  /\ Len(senderLine) = Delay /\ pad \in 0 .. Delay

(* Each sample of a frame is one or more samples of air. *)
Repeated ==
  /\ Len(air) = Ends(Out) /\ senderPhase = NextPhase(0, Out)
  /\ \A x \in 1 .. Len(air) : air[x] = air[Ends(Cell(x))]

(* send_frames() between two calls of send_to_radio(). *)
SenderPlace ==
  /\ senderPc \in {"created", "read", "frame", "dummy", "done"}
  /\ senderPc = "created" => sent = <<>> /\ air = <<>> /\ pos = 0 /\ ~ending /\ ~eof
  /\ senderPc \in {"created", "read"} => frame = <<>> /\ pad = 0 /\ ~ending
  /\ senderPc = "frame" => frame # <<>> /\ pad = 0 /\ ~ending
  /\ senderPc = "dummy" => frame = <<>> /\ pad > 0
  /\ senderPc = "done" => frame = <<>> /\ pad = 0
  /\ senderPc \in {"created", "dummy", "done"} =>
       \A m \in 1 .. Delay : m > pad => senderLine[m] = Zero

SenderReads ==
  /\ eof => sourceClosed /\ pos = avail
  /\ ending /\ ~S!Stopped => eof
  /\ senderPc = "done" => ending
  /\ FlattenSeq(sent) = S!Units(0, pos)

(* What the stage of a process says of its transfer. *)
Processes ==
  /\ senderStage \in {"options", "create", "failed"} => senderPc = "created"
  /\ senderStage \in {"pause", "exited"} => senderPc = "done"
  /\ senderStage = "killed" => senderPc = "created" \/ Unread
  /\ receiverStage \in {"options", "create", "failed", "killed"} => receiverPc = "created"
  /\ receiverStage \in {"pause", "exited"} => receiverPc = "done"
-----------------------------------------------------------------------------
(* The input of the filter of the receiver, how much of it has come out and *)
(* how many of the samples made of it the synchronizer has taken.           *)
Input == R!EmptyLine \o receiverDump

(* The samples that the resampler of the receiver makes of n, and the one   *)
(* that its sample j is made from.                                          *)
Given(n) == R!OutputLen(0, n)

Pick(j) == R!Position(0, j)

EmergedLen == IF receiverPc \in {"last", "done"}
              THEN ReceiverDelay + Len(receiverDump) ELSE Len(receiverDump)

Taken == Given(EmergedLen) - Len(pending)

ReceiverTypes ==
  /\ receiverPc \in {"created", "loop", "read", "feed", "flush", "last", "done"}
  /\ receiverDump \in Seq(SampleSet) /\ receiverLine \in Seq(SampleSet)
  /\ Len(receiverLine) = ReceiverDelay /\ pending \in Seq(SampleSet)
  /\ cutShort \in BOOLEAN

(* What has been read is the beginning of what was written. *)
ReadInv ==
  /\ rpos = Len(receiverDump) /\ rpos <= Len(Written)
  /\ \A x \in 1 .. rpos : receiverDump[x] = air[x]

ResamplerInv ==
  /\ receiverPc \notin {"last", "done"} =>
       \A m \in 1 .. ReceiverDelay : receiverLine[m] = Input[Len(receiverDump) + m]
  /\ receiverPc \notin {"feed", "last"} => pending = <<>>
  /\ receiverPhase = R!NextPhase(0, EmergedLen)
  /\ Len(pending) <= Given(EmergedLen)
  /\ \A j \in 1 .. Len(pending) : pending[j] = Input[Pick(Taken + j)]

(* The receiver was not stopped and has found the end of its input.        *)
EndInv ==
  receiverPc \in {"flush", "last", "done"} /\ ~cutShort =>
    /\ PipeClosed /\ senderPc \in {"created", "done"}
    /\ rpos = Len(air)
-----------------------------------------------------------------------------
(* What of the stream the filters of the receiver keep back. *)
Lag == Given(ReceiverDelay)

(* Frame i is the samples of the stream after place[i], one frame is after  *)
(* the other, and there is nothing else but zeros.                          *)
Laid(place, number) ==
  /\ \A i \in 1 .. Len(sent) :
       /\ place[i] + FrameLen(i) <= Made
       /\ \A k \in 1 .. FrameLen(i) : Stream[place[i] + k] = Sample(number[i], sent[i], k)
  /\ \A i, j \in 1 .. Len(sent) : i < j => place[i] + FrameLen(i) <= place[j]
  /\ \A x \in 1 .. Made :
       \/ Stream[x] = Zero
       \/ \E i \in 1 .. Len(sent) : \E k \in 1 .. FrameLen(i) : x = place[i] + k

(* The synchronizer follows the frames, up to the zeros that a stop makes   *)
(* of the end of one.                                                       *)
Following == ~(receiverPc \in {"last", "done"} /\ pending = <<>> /\ cutShort)

(* The frame of which k samples have come. *)
Partial(number, payload, k) ==
  [header |-> Header(Id, number), payload |-> payload, k |-> k, intact |-> TRUE]

(* The synchronizer has taken some of the samples of frame i. *)
InFrame(place, number, i) ==
  \E k \in 1 .. FrameLen(i) - 1 :
    /\ sync = Partial(number[i], sent[i], k)
    /\ Taken = place[i] + k + Lag

OpenFrames == [header : {Header(Id, number) : number \in Nat}, payload : Payloads,
               k : Nat, intact : BOOLEAN]

Followed(place, number) ==
  /\ delivered \in Seq(Payloads) /\ Len(delivered) <= Len(sent)
  /\ sync # R!Seeking => sync \in OpenFrames
  /\ \A i \in 1 .. Len(delivered) :
       delivered[i] = sent[i] /\ place[i] + FrameLen(i) + Lag <= Taken
  /\ Following /\ sync = R!Seeking =>
       \A i \in Len(delivered) + 1 .. Len(sent) : Taken <= place[i] + Lag
  /\ Following /\ sync # R!Seeking =>
       /\ Len(delivered) + 1 <= Len(sent)
       /\ InFrame(place, number, Len(delivered) + 1)
-----------------------------------------------------------------------------
(* The sample of a frame that a sample of the radio is made from. *)

(* The ratio of the sender.                                                 *)
LEMMA Ratio ==
  /\ Interpolation \in Nat \ {0} /\ Decimation \in Nat \ {0} /\ Decimation <= Interpolation
  BY SamplesAssumption, LinkAssumption

(* The cell of a sample is determined by its bounds.                        *)
LEMMA CellUnique ==
  ASSUME NEW n \in Nat, NEW x \in Nat,
         (n - 1) * Interpolation < x * Decimation, x * Decimation <= n * Interpolation
  PROVE  Cell(x) = n
<1> DEFINE p == Interpolation
           y == x * Decimation
           b == n * p
           r == y + p - 1 - b
<1>1. p \in Nat \ {0} /\ y \in Nat /\ b \in Nat /\ (n - 1) * p = b - p
  BY Ratio
<1>2. b - p < y /\ y <= b
  BY <1>1
<1> HIDE DEF p, y, b
<1>3. r \in 0 .. p - 1 /\ y - 0 + p - 1 = b + r
  BY <1>1, <1>2
<1> HIDE DEF r
<1>4. (n * p + r) \div p = n
  BY <1>1, <1>3, DivisionUnique
<1>5. (y - 0 + p - 1) \div p = n
  BY <1>3, <1>4 DEF b
<1> QED BY <1>5 DEF Cell, Position, y, p

(* A sample is within the bounds of its cell.                               *)
LEMMA CellFacts ==
  ASSUME NEW x \in Nat
  PROVE  /\ Cell(x) \in Nat /\ (x # 0 => Cell(x) # 0) /\ (x = 0 => Cell(x) = 0)
         /\ (Cell(x) - 1) * Interpolation < x * Decimation
         /\ x * Decimation <= Cell(x) * Interpolation
<1> DEFINE p == Interpolation
           y == x * Decimation
<1>1. p \in Nat \ {0} /\ y \in Nat /\ (x # 0 => y # 0) /\ (x = 0 => y = 0)
  <2>1. x # 0 => x * Decimation >= Decimation
    BY Ratio
  <2> QED BY <2>1, Ratio
<1>2. Cell(x) = (y - 0 + p - 1) \div p
  BY DEF Cell, Position
<1> HIDE DEF p, y
<1> DEFINE t == y - 0 + p - 1
<1>3. t \in Nat /\ t = y + p - 1
  BY <1>1
<1> HIDE DEF t
<1>4. PICK n \in Nat, r \in 0 .. p - 1 : n = t \div p /\ t = n * p + r
  BY <1>1, <1>3, Dividend
<1>5. n * p \in Nat /\ (n - 1) * p = n * p - p /\ 0 * p = 0
  BY <1>1
<1>6. (n - 1) * p < y /\ y <= n * p
  <2> DEFINE b == n * p
  <2>1. b \in Nat /\ t = b + r /\ (n - 1) * p = b - p
    BY <1>4, <1>5
  <2> HIDE DEF b
  <2>2. b - p < y /\ y <= b
    BY <1>1, <1>3, <1>4, <2>1
  <2> QED BY <2>1, <2>2 DEF b
<1>7. (x # 0 => n # 0)
  BY <1>1, <1>5, <1>6
<1>8. x = 0 => n = 0
  <2> SUFFICES ASSUME y = 0, n # 0 PROVE FALSE
    BY <1>1
  <2>1. n * p >= p
    BY <1>1
  <2> QED BY <1>1, <1>5, <1>6, <2>1
<1>9. Cell(x) = n
  BY <1>2, <1>4 DEF t
<1> QED BY <1>6, <1>7, <1>8, <1>9 DEF p, y

(* The samples of air that are made from the first n end where the cell does. *)
LEMMA EndsFacts ==
  ASSUME NEW n \in Nat
  PROVE  /\ Ends(n) \in Nat /\ Cell(Ends(n)) = n /\ (n # 0 => Ends(n) # 0)
         /\ Ends(n) * Decimation <= n * Interpolation
         /\ n * Interpolation < Ends(n) * Decimation + Decimation
<1> DEFINE p == Interpolation
           q == Decimation
           t == 0 + n * p
<1>1. p \in Nat \ {0} /\ q \in Nat \ {0} /\ q <= p /\ t \in Nat /\ t = n * p
  BY Ratio
<1>2. Ends(n) = t \div q
  BY DEF Ends, OutputLen
<1> HIDE DEF t, p, q
<1>3. PICK e \in Nat, r \in 0 .. q - 1 : e = t \div q /\ t = e * q + r
  BY <1>1, Dividend
<1>4. e * q \in Nat /\ (n - 1) * p = n * p - p
  BY <1>1
<1>5. e * q <= n * p /\ n * p < e * q + q /\ (n - 1) * p < e * q
  <2> DEFINE a == e * q
             b == n * p
  <2>1. a \in Nat /\ b = a + r /\ (n - 1) * p = b - p
    BY <1>1, <1>3, <1>4
  <2> HIDE DEF a, b
  <2>2. a <= b /\ b < a + q /\ b - p < a
    BY <1>1, <2>1
  <2> QED BY <2>1, <2>2 DEF a, b
<1>6. Cell(e) = n
  BY <1>5, CellUnique DEF p, q
<1>7. n # 0 => e # 0
  BY <1>6, CellFacts
<1> QED BY <1>2, <1>3, <1>5, <1>6, <1>7 DEF p, q

(* More samples of frames end later.                                        *)
LEMMA EndsMonotone ==
  ASSUME NEW m \in Nat, NEW n \in Nat, m <= n
  PROVE  Ends(m) <= Ends(n)
  BY OutputMonotone DEF Ends

(* A sample of the first n is made from one of them.                        *)
LEMMA CellBound ==
  ASSUME NEW n \in Nat, NEW x \in 1 .. Ends(n)
  PROVE  Cell(x) \in 1 .. n
<1>1. 0 \in 0 .. Decimation - 1
  BY Ratio
<1> QED BY <1>1, PositionInBlock DEF Cell, Ends

(* The place in air where the cell of a sample ends.                        *)
LEMMA CellEnds ==
  ASSUME NEW n \in Nat, NEW m \in 1 .. n
  PROVE  Ends(m) \in 1 .. Ends(n)
<1>1. Ends(m) \in Nat \ {0} /\ Ends(n) \in Nat /\ Ends(m) <= Ends(n)
  BY EndsFacts, EndsMonotone
<1> QED BY <1>1

(* A block of n samples after m others.                                     *)
LEMMA BlockEnds ==
  ASSUME NEW m \in Nat, NEW n \in Nat
  PROVE  /\ OutputLen(NextPhase(0, m), n) \in Nat
         /\ Ends(m + n) = Ends(m) + OutputLen(NextPhase(0, m), n)
         /\ NextPhase(0, m + n) = NextPhase(NextPhase(0, m), n)
         /\ \A j \in 1 .. OutputLen(NextPhase(0, m), n) :
              /\ Position(NextPhase(0, m), j) \in 1 .. n
              /\ Cell(Ends(m) + j) = m + Position(NextPhase(0, m), j)
<1>1. 0 \in 0 .. Decimation - 1
  BY Ratio
<1> DEFINE ph == NextPhase(0, m)
<1>2. /\ ph \in 0 .. Decimation - 1
      /\ OutputLen(0, m + n) = OutputLen(0, m) + OutputLen(ph, n)
      /\ NextPhase(0, m + n) = NextPhase(ph, n)
      /\ \A j \in 1 .. OutputLen(ph, n) : Position(0, OutputLen(0, m) + j) = m + Position(ph, j)
  BY <1>1, BlockContinues
<1> HIDE DEF ph
<1>3. \A j \in 1 .. OutputLen(ph, n) : Position(ph, j) \in 1 .. n
  BY <1>2, PositionInBlock
<1>4. OutputLen(ph, n) \in Nat
  <2>1. ph + n * Interpolation \in Nat /\ Decimation \in Nat \ {0}
    BY <1>2, Ratio
  <2> QED BY <2>1, Division DEF OutputLen
<1> QED BY <1>2, <1>3, <1>4 DEF Cell, Ends, ph
-----------------------------------------------------------------------------
(* A filter of the given delay, sample by sample: the x-th sample of what   *)
(* it holds and is given.                                                   *)
Fed(delay, l, in, x) == IF x <= delay THEN l[x] ELSE in[x - delay]

(* What comes out of a filter, and what stays in it. *)
Filters(delay, l, in, emerging, staying) ==
  /\ delay \in Nat /\ in \in Seq(SampleSet) /\ l \in Seq(SampleSet) /\ Len(l) = delay
  /\ emerging = SubSeq(l \o in, 1, Len(in))
  /\ staying = SubSeq(l \o in, Len(in) + 1, Len(in) + delay)

(* The filter, sample by sample.                                            *)
LEMMA FilterPasses ==
  ASSUME NEW delay, NEW l, NEW in, NEW emerging, NEW staying,
         Filters(delay, l, in, emerging, staying)
  PROVE  /\ emerging \in Seq(SampleSet) /\ Len(emerging) = Len(in)
         /\ staying \in Seq(SampleSet) /\ Len(staying) = delay
         /\ \A m \in 1 .. Len(in) : emerging[m] = Fed(delay, l, in, m)
         /\ \A m \in 1 .. delay : staying[m] = Fed(delay, l, in, Len(in) + m)
<1> DEFINE all == l \o in
<1>0. /\ delay \in Nat /\ in \in Seq(SampleSet) /\ l \in Seq(SampleSet) /\ Len(l) = delay
      /\ emerging = SubSeq(all, 1, Len(in))
      /\ staying = SubSeq(all, Len(in) + 1, Len(in) + delay)
  BY DEF Filters
<1>1. /\ all \in Seq(SampleSet) /\ Len(all) = delay + Len(in) /\ Len(in) \in Nat
      /\ \A x \in 1 .. delay + Len(in) : all[x] = Fed(delay, l, in, x)
  <2>1. /\ all \in Seq(SampleSet) /\ Len(all) = Len(l) + Len(in)
        /\ \A x \in 1 .. Len(l) + Len(in) : all[x] = IF x <= Len(l) THEN l[x] ELSE in[x - Len(l)]
    BY <1>0, ConcatProperties, Zenon
  <2> QED BY <1>0, <2>1 DEF Fed
<1> HIDE DEF all
<1>2. \A x \in 1 .. delay + Len(in) : all[x] \in SampleSet
  BY <1>1, ElementOfSeq
<1>3. /\ emerging \in Seq(SampleSet) /\ Len(emerging) = Len(in)
      /\ \A m \in 1 .. Len(in) : emerging[m] = all[m] /\ m \in 1 .. delay + Len(in)
  BY <1>0, <1>1, <1>2, SubSeqProperties
<1>4. /\ staying \in Seq(SampleSet) /\ Len(staying) = delay
      /\ \A m \in 1 .. delay : staying[m] = all[Len(in) + m] /\ Len(in) + m \in 1 .. delay + Len(in)
  <2>1. PICK n : n = Len(in)
    OBVIOUS
  <2>2. /\ n \in Nat /\ n + 1 \in Int /\ n + delay \in Int
        /\ \A i \in n + 1 .. n + delay : all[i] \in SampleSet
    BY <1>0, <1>1, <1>2, <2>1
  <2>3. /\ staying \in Seq(SampleSet)
        /\ Len(staying) = IF n + 1 <= n + delay THEN (n + delay) - (n + 1) + 1 ELSE 0
        /\ \A i \in 1 .. (n + delay) - (n + 1) + 1 : staying[i] = all[(n + 1) + i - 1]
    BY <1>0, <2>1, <2>2, SubSeqProperties
  <2>4. Len(staying) = delay /\ (n + delay) - (n + 1) + 1 = delay
    BY <1>0, <2>2, <2>3
  <2>5. \A m \in 1 .. delay : (n + 1) + m - 1 = n + m /\ n + m \in 1 .. delay + n
    BY <1>0, <2>2
  <2> QED BY <2>1, <2>3, <2>4, <2>5
<1>5. /\ \A m \in 1 .. Len(in) : emerging[m] = Fed(delay, l, in, m)
      /\ \A m \in 1 .. delay : staying[m] = Fed(delay, l, in, Len(in) + m)
  BY <1>1, <1>3, <1>4
<1> QED BY <1>3, <1>4, <1>5
-----------------------------------------------------------------------------
(* The sender. *)

(* Zero is a sample.                                                        *)
LEMMA ZeroSample == Zero \in SampleSet /\ <<Zero>> \in Seq(SampleSet) /\ S!Zero = Zero
  BY DEF SampleSet, Zero, S!Zero

(* The lengths of what the sender has made are numbers.                     *)
LEMMA OutFacts ==
  ASSUME SenderTypes
  PROVE  /\ Out \in Nat /\ Len(air) \in Nat /\ Len(frame) \in Nat /\ Delay \in Nat \ {0}
         /\ Interpolation \in Nat \ {0} /\ Made \in Nat
<1> USE SamplesAssumption
<1>1. Len(air) \in Nat /\ Len(frame) \in Nat
  BY DEF SenderTypes
<1>2. Out \in Nat
  BY <1>1, CellFacts DEF Out
<1> QED BY <1>1, <1>2 DEF Made

(* A block after m samples. *)
Resamples(m, s, ph, out) ==
  m \in Nat /\ s \in Seq(SampleSet) /\ ph = NextPhase(0, m) /\ out = S!Resample(ph, s)

(* What the resampler makes of a block: each sample is one of the block.    *)
LEMMA Repetition ==
  ASSUME NEW m, NEW s, NEW ph, NEW out, Resamples(m, s, ph, out)
  PROVE  /\ out \in Seq(SampleSet) /\ Ends(m + Len(s)) = Ends(m) + Len(out)
         /\ \A j \in 1 .. Len(out) : /\ Cell(Ends(m) + j) - m \in 1 .. Len(s)
                                     /\ out[j] = s[Cell(Ends(m) + j) - m]
         /\ S!NextPhase(ph, Len(s)) = NextPhase(0, m + Len(s))
<1> DEFINE n == OutputLen(ph, Len(s))
<1>0. m \in Nat /\ s \in Seq(SampleSet) /\ ph = NextPhase(0, m) /\ out = S!Resample(ph, s)
  BY DEF Resamples
<1>1. out = [j \in 1 .. n |-> s[Position(ph, j)]]
  BY <1>0 DEF S!Resample, S!OutputLen, S!Position, OutputLen, Position
<1>2. S!NextPhase(ph, Len(s)) = NextPhase(ph, Len(s))
  BY DEF S!NextPhase, NextPhase
<1>3. /\ n \in Nat /\ Ends(m + Len(s)) = Ends(m) + n
      /\ NextPhase(0, m + Len(s)) = NextPhase(ph, Len(s))
      /\ \A j \in 1 .. n : /\ Position(ph, j) \in 1 .. Len(s)
                           /\ Cell(Ends(m) + j) = m + Position(ph, j)
  <2>1. Len(s) \in Nat
    BY <1>0
  <2> QED BY <1>0, <2>1, BlockEnds
<1> HIDE DEF n
<1>4. \A j \in 1 .. n : s[Position(ph, j)] \in SampleSet
  BY <1>0, <1>3, ElementOfSeq
<1>5. out \in Seq(SampleSet) /\ Len(out) = n /\ \A j \in 1 .. n : out[j] = s[Position(ph, j)]
  BY <1>1, <1>3, <1>4
<1>6. ASSUME NEW j \in 1 .. n
      PROVE  Cell(Ends(m) + j) - m \in 1 .. Len(s) /\ out[j] = s[Cell(Ends(m) + j) - m]
  <2>1. Position(ph, j) \in 1 .. Len(s) /\ Cell(Ends(m) + j) = m + Position(ph, j)
    BY <1>3
  <2>2. Cell(Ends(m) + j) - m = Position(ph, j)
    BY <1>0, <2>1
  <2> QED BY <1>5, <2>1, <2>2
<1> QED BY <1>2, <1>3, <1>5, <1>6

(* What SendBlock and SendDummy transmit goes through the filter to the air. *)
LEMMA Transmission ==
  ASSUME SenderTypes, Repeated, NEW in \in Seq(SampleSet), S!Transmit(in)
  PROVE  /\ senderLine' \in Seq(SampleSet) /\ Len(senderLine') = Delay
         /\ air' \in Seq(SampleSet) /\ Len(air) <= Len(air')
         /\ Out' = Out + Len(in)
         /\ Repeated'
         /\ \A x \in 1 .. Len(air) : air'[x] = air[x]
         /\ \A m \in 1 .. Len(in) : air'[Ends(Out + m)] = Fed(Delay, senderLine, in, m)
         /\ \A m \in 1 .. Delay : senderLine'[m] = Fed(Delay, senderLine, in, Len(in) + m)
         /\ senderPc' = S!Caller(frame', pad')
<1> DEFINE emerging == Emerging(senderLine, in)
<1>1. PICK n, o, ph, len : n = Len(in) /\ o = Out /\ ph = senderPhase /\ len = Len(air)
  OBVIOUS
<1>2. /\ senderLine \in Seq(SampleSet) /\ Len(senderLine) = Delay /\ Delay \in Nat
      /\ air \in Seq(SampleSet) /\ n \in Nat /\ o \in Nat /\ len = Ends(o) /\ len \in Nat
      /\ ph = NextPhase(0, o)
      /\ \A x \in 1 .. len : air[x] = air[Ends(Cell(x))]
  BY <1>1, OutFacts DEF SenderTypes, Repeated
<1>3. PICK out : out = S!Resample(ph, emerging)
  OBVIOUS
<1>4. /\ senderLine' = Staying(senderLine, in) /\ senderPhase' = S!NextPhase(ph, n)
      /\ air' = air \o out /\ senderPc' = S!Caller(frame', pad')
  <2>1. /\ senderLine' = S!Staying(senderLine, in) /\ senderPhase' = S!NextPhase(senderPhase, n)
        /\ S!SendToRadio(S!Resample(senderPhase, S!Emerging(senderLine, in)))
    BY <1>1 DEF S!Transmit
  <2>2. S!Staying(senderLine, in) = Staying(senderLine, in) /\ S!Emerging(senderLine, in) = emerging
    BY DEF S!Staying, S!Emerging, Staying, Emerging
  <2>3. \A v : S!SendToRadio(v) => air' = air \o v /\ senderPc' = S!Caller(frame', pad')
    BY DEF S!SendToRadio
  <2> HIDE DEF emerging
  <2> QED BY <1>1, <1>3, <2>1, <2>2, <2>3
<1>5. /\ emerging \in Seq(SampleSet) /\ Len(emerging) = n
      /\ senderLine' \in Seq(SampleSet) /\ Len(senderLine') = Delay
      /\ \A m \in 1 .. n : emerging[m] = Fed(Delay, senderLine, in, m)
      /\ \A m \in 1 .. Delay : senderLine'[m] = Fed(Delay, senderLine, in, n + m)
  <2>1. /\ senderLine \in Seq(SampleSet) /\ in \in Seq(SampleSet)
        /\ Delay \in Nat /\ Len(senderLine) = Delay
    BY <1>2
  <2>3. Filters(Delay, senderLine, in, emerging, senderLine')
    BY <1>4, <2>1 DEF Emerging, Staying, Filters
  <2> HIDE DEF emerging
  <2>2. /\ emerging \in Seq(SampleSet) /\ Len(emerging) = Len(in)
        /\ senderLine' \in Seq(SampleSet) /\ Len(senderLine') = Delay
        /\ \A m \in 1 .. Len(in) : emerging[m] = Fed(Delay, senderLine, in, m)
        /\ \A m \in 1 .. Delay : senderLine'[m] = Fed(Delay, senderLine, in, Len(in) + m)
    BY ONLY <2>3, FilterPasses
  <2> QED BY <1>1, <2>2
<1> HIDE DEF emerging
<1>6. /\ out \in Seq(SampleSet) /\ Ends(o + n) = len + Len(out)
      /\ \A j \in 1 .. Len(out) : /\ Cell(len + j) - o \in 1 .. n
                                  /\ out[j] = emerging[Cell(len + j) - o]
      /\ senderPhase' = NextPhase(0, o + n)
  <2>1. Resamples(o, emerging, ph, out)
    BY <1>2, <1>3, <1>5 DEF Resamples
  <2>2. /\ out \in Seq(SampleSet)
        /\ Ends(o + Len(emerging)) = Ends(o) + Len(out)
        /\ \A j \in 1 .. Len(out) :
             /\ Cell(Ends(o) + j) - o \in 1 .. Len(emerging)
             /\ out[j] = emerging[Cell(Ends(o) + j) - o]
        /\ S!NextPhase(ph, Len(emerging)) = NextPhase(0, o + Len(emerging))
    BY ONLY <2>1, Repetition
  <2> QED BY <1>2, <1>4, <1>5, <2>2
<1>7. /\ air' \in Seq(SampleSet) /\ Len(air') = len + Len(out) /\ Len(out) \in Nat
      /\ \A x \in 1 .. len : air'[x] = air[x]
      /\ \A j \in 1 .. Len(out) : air'[len + j] = out[j]
  <2>1. Joins(air', air, out)
    BY <1>4 DEF Joins
  <2>2. /\ air' \in Seq(SampleSet) /\ Len(air') = Len(air) + Len(out)
        /\ \A x \in 1 .. Len(air) : air'[x] = air[x]
        /\ \A j \in 1 .. Len(out) : air'[Len(air) + j] = out[j]
    <3>1. air \in Seq(SampleSet) /\ out \in Seq(SampleSet)
      BY <1>2, <1>6
    <3> QED BY ONLY <2>1, <3>1, JoinsFacts
  <2>3. Len(out) \in Nat
    BY <1>6
  <2> QED BY <1>1, <2>2, <2>3
<1>8. /\ Len(air') = Ends(o + n) /\ Out' = o + n /\ o + n \in Nat
      /\ \A x \in len + 1 .. Ends(o + n) :
           /\ Cell(x) - o \in 1 .. n
           /\ air'[x] = Fed(Delay, senderLine, in, Cell(x) - o)
  <2>1. Len(air') = Ends(o + n) /\ o + n \in Nat
    BY <1>2, <1>6, <1>7
  <2>2. Out' = Cell(Len(air'))
    BY DEF Out
  <2>3. Out' = o + n
    BY <2>1, <2>2, EndsFacts
  <2>4. ASSUME NEW x \in len + 1 .. Ends(o + n)
        PROVE  Cell(x) - o \in 1 .. n /\ air'[x] = Fed(Delay, senderLine, in, Cell(x) - o)
    <3>1. PICK j : j = x - len
      OBVIOUS
    <3>2. j \in 1 .. Len(out) /\ x = len + j
      BY <1>2, <1>6, <1>7, <3>1
    <3> QED BY <1>5, <1>6, <1>7, <3>2
  <2> QED BY <2>1, <2>3, <2>4
<1>9. ASSUME NEW m \in 1 .. n
      PROVE  air'[Ends(o + m)] = Fed(Delay, senderLine, in, m)
  <2>1. o + m \in 1 .. o + n /\ o + m \in Nat /\ (o + m) - o = m /\ o + 1 <= o + m /\ o + 1 \in Nat
    BY <1>2
  <2>2. Ends(o + m) \in 1 .. Ends(o + n) /\ Cell(Ends(o + m)) = o + m
    BY <1>8, <2>1, CellEnds, EndsFacts
  <2>3. ~(Ends(o + m) <= len)
    <3> SUFFICES ASSUME Ends(o + m) <= len PROVE FALSE
      OBVIOUS
    <3>1. Ends(o + m) \in 1 .. Ends(o)
      BY <1>2, <2>2
    <3>2. o + m \in 1 .. o
      BY <1>2, <2>2, <3>1, CellBound
    <3> QED BY <1>2, <3>2
  <2>4. Ends(o + m) \in len + 1 .. Ends(o + n)
    BY <1>2, <2>2, <2>3
  <2> QED BY <1>8, <2>1, <2>2, <2>4
<1>10. Repeated'
  <2> SUFFICES ASSUME NEW x \in 1 .. Len(air') PROVE air'[x] = air'[Ends(Cell(x))]
    BY <1>6, <1>8 DEF Repeated
  <2>1. CASE x <= len
    <3>1. x \in 1 .. len /\ x \in 1 .. Ends(o)
      BY <1>2, <2>1
    <3>2. Cell(x) \in 1 .. o
      BY <1>2, <3>1, CellBound
    <3>3. Ends(Cell(x)) \in 1 .. len
      BY <1>2, <3>2, CellEnds
    <3> QED BY <1>2, <1>7, <3>1, <3>3
  <2>2. CASE ~(x <= len)
    <3>1. x \in len + 1 .. Ends(o + n)
      BY <1>2, <1>8, <2>2
    <3>2. PICK m : m = Cell(x) - o
      OBVIOUS
    <3>3. m \in 1 .. n /\ air'[x] = Fed(Delay, senderLine, in, m)
      BY <1>8, <3>1, <3>2
    <3>4. Cell(x) = o + m
      <4>1. Cell(x) \in Nat
        BY <1>2, <3>1, CellFacts
      <4> QED BY <1>2, <3>2, <4>1
    <3> QED BY <1>9, <3>3, <3>4
  <2> QED BY <2>1, <2>2
<1>11. Len(air) <= Len(air')
  BY <1>1, <1>2, <1>7
<1>12. /\ Out' = Out + Len(in)
       /\ \A x \in 1 .. Len(air) : air'[x] = air[x]
       /\ \A m \in 1 .. Len(in) : air'[Ends(Out + m)] = Fed(Delay, senderLine, in, m)
       /\ \A m \in 1 .. Delay : senderLine'[m] = Fed(Delay, senderLine, in, Len(in) + m)
  BY <1>1, <1>5, <1>7, <1>8, <1>9
<1> QED BY <1>4, <1>5, <1>7, <1>10, <1>11, <1>12
-----------------------------------------------------------------------------
(* The stream. *)

(* Where each sample of the stream is.                                      *)
LEMMA StreamSample ==
  ASSUME SenderTypes, NEW x \in 1 .. Made
  PROVE  /\ x <= Out => Stream[x] = air[Ends(x)]
         /\ ~(x <= Out) /\ x <= Out + Delay => Stream[x] = senderLine[x - Out]
         /\ ~(x <= Out + Delay) => Stream[x] = frame[x - (Out + Delay)]
<1>1. Out \in Nat /\ Delay \in Nat
  BY OutFacts
<1>2. x <= Out => x <= Out + Delay
  BY <1>1
<1> QED BY <1>2 DEF Stream

(* What the resampler takes moves on in the stream. *)
LEMMA StreamMoves ==
  ASSUME SenderTypes, Repeated, NEW in \in Seq(SampleSet), S!Transmit(in), SenderTypes'
  PROVE  /\ Out' = Out + Len(in)
         /\ \A x \in 1 .. Out + Delay + Len(in) :
              /\ x \in 1 .. Made' /\ x <= Out' + Delay
              /\ x <= Out /\ x \in 1 .. Made => Stream'[x] = Stream[x]
              /\ ~(x <= Out) => Stream'[x] = Fed(Delay, senderLine, in, x - Out)
<1> DEFINE n == Len(in)
<1>1. /\ Out \in Nat /\ Len(air) = Ends(Out) /\ Delay \in Nat /\ n \in Nat
      /\ Made \in Nat
  BY OutFacts DEF Repeated
<1>2. /\ Out' = Out + n
      /\ \A x \in 1 .. Len(air) : air'[x] = air[x]
      /\ \A m \in 1 .. n : air'[Ends(Out + m)] = Fed(Delay, senderLine, in, m)
      /\ \A m \in 1 .. Delay : senderLine'[m] = Fed(Delay, senderLine, in, n + m)
  BY Transmission
<1>3. Made' = Out + n + Delay + Len(frame') /\ Len(frame') \in Nat
  <2>1. Len(frame') \in Nat
    BY DEF SenderTypes
  <2> QED BY <1>2, <2>1 DEF Made
<1> HIDE DEF n
<1>4. ASSUME NEW x \in 1 .. Out + Delay + n
      PROVE  /\ x \in 1 .. Made' /\ x <= Out' + Delay
             /\ x <= Out' => Stream'[x] = air'[Ends(x)]
             /\ ~(x <= Out') => Stream'[x] = senderLine'[x - Out']
  <2>1. x \in 1 .. Made' /\ x <= Out' + Delay
    BY <1>1, <1>2, <1>3
  <2>2. Stream' = [j \in 1 .. Made' |->
             IF j <= Out' THEN air'[Ends(j)]
             ELSE IF j <= Out' + Delay THEN senderLine'[j - Out']
             ELSE frame'[j - (Out' + Delay)]]
    BY DEF Stream
  <2> QED BY <2>1, <2>2
<1>5. ASSUME NEW x \in 1 .. Out + Delay + n
      PROVE  /\ x <= Out /\ x \in 1 .. Made => Stream'[x] = Stream[x]
             /\ ~(x <= Out) => Stream'[x] = Fed(Delay, senderLine, in, x - Out)
  <2>1. CASE x <= Out
    <3>1. x <= Out' /\ x \in Nat /\ x # 0
      BY <1>1, <1>2, <2>1
    <3>2. x \in 1 .. Out
      BY <1>1, <2>1, <3>1
    <3>3. Ends(x) \in 1 .. Len(air)
      BY <1>1, <3>2, CellEnds
    <3> QED BY <1>2, <1>4, <2>1, <3>1, <3>3, StreamSample
  <2>2. CASE ~(x <= Out) /\ x <= Out + n
    <3>1. x - Out \in 1 .. n /\ Out + (x - Out) = x /\ x <= Out'
      BY <1>1, <1>2, <2>2
    <3> QED BY <1>2, <1>4, <2>2, <3>1
  <2>3. CASE ~(x <= Out) /\ ~(x <= Out + n)
    <3>1. x - Out' \in 1 .. Delay /\ ~(x <= Out') /\ n + (x - Out') = x - Out
      BY <1>1, <1>2, <2>3
    <3> QED BY <1>2, <1>4, <2>3, <3>1
  <2> QED BY <2>1, <2>2, <2>3
<1> QED BY <1>2, <1>4, <1>5 DEF n

(* A block of a frame. *)
LEMMA BlockMoves ==
  ASSUME SenderTypes, Repeated, S!SendBlock, SenderTypes'
  PROVE  Made' = Made /\ \A x \in 1 .. Made : Stream'[x] = Stream[x]
<1> DEFINE n == S!Least(BlockSize, Len(frame))
           in == SubSeq(frame, 1, n)
<1>1. /\ Out \in Nat /\ Delay \in Nat /\ Len(frame) \in Nat /\ Made \in Nat
      /\ frame \in Seq(SampleSet)
  BY OutFacts DEF SenderTypes
<1>2. n \in 0 .. Len(frame)
  BY <1>1, LinkAssumption DEF S!Least
<1>3. S!Transmit(in) /\ frame' = SubSeq(frame, n + 1, Len(frame))
  BY DEF S!SendBlock
<1> HIDE DEF n
<1>4. /\ in \in Seq(SampleSet) /\ Len(in) = n
      /\ \A m \in 1 .. n : in[m] = frame[m]
      /\ Len(frame') = Len(frame) - n
      /\ \A m \in 1 .. Len(frame) - n : frame'[m] = frame[n + m]
  <2>1. \A i \in 1 .. Len(frame) : frame[i] \in SampleSet
    BY <1>1, ElementOfSeq
  <2>2. /\ in \in Seq(SampleSet) /\ Len(in) = n
        /\ \A m \in 1 .. n : in[m] = frame[m]
    BY <1>1, <1>2, <2>1, SubSeqProperties
  <2>3. \A i \in n + 1 .. Len(frame) : frame[i] \in SampleSet
    BY <1>1, <1>2, <2>1
  <2>4. /\ Len(SubSeq(frame, n + 1, Len(frame))) = Len(frame) - n
        /\ \A m \in 1 .. Len(frame) - n : SubSeq(frame, n + 1, Len(frame))[m] = frame[n + m]
    BY <1>1, <1>2, <2>3, SubSeqProperties
  <2> QED BY <1>3, <2>2, <2>4
<1> HIDE DEF in
<1>5. /\ Out' = Out + n
      /\ \A x \in 1 .. Out + Delay + n :
           /\ x \in 1 .. Made' /\ x <= Out' + Delay
           /\ x <= Out /\ x \in 1 .. Made => Stream'[x] = Stream[x]
           /\ ~(x <= Out) => Stream'[x] = Fed(Delay, senderLine, in, x - Out)
  <2>1. in \in Seq(SampleSet)
    BY <1>4
  <2> QED BY <1>3, <1>4, <2>1, StreamMoves
<1>6. Made' = Made /\ Made = Out + Delay + Len(frame)
  <2>1. Made' = Out' + Delay + Len(frame')
    BY DEF Made
  <2> QED BY <1>1, <1>2, <1>4, <1>5, <2>1 DEF Made
<1>7. ASSUME NEW x \in 1 .. Made PROVE Stream'[x] = Stream[x]
  <2>1. CASE x <= Out
    <3>1. x \in 1 .. Out + Delay + n
      BY <1>1, <1>2, <2>1
    <3> QED BY <1>5, <2>1, <3>1
  <2>2. CASE ~(x <= Out) /\ x <= Out + Delay
    <3>1. x \in 1 .. Out + Delay + n /\ x - Out <= Delay
      BY <1>1, <1>2, <2>2
    <3>2. Fed(Delay, senderLine, in, x - Out) = senderLine[x - Out]
      BY <3>1 DEF Fed
    <3> QED BY <1>5, <2>2, <3>1, <3>2, StreamSample
  <2>3. CASE ~(x <= Out + Delay) /\ x <= Out + Delay + n
    <3>1. /\ x \in 1 .. Out + Delay + n /\ ~(x <= Out) /\ ~(x - Out <= Delay)
          /\ (x - Out) - Delay = x - (Out + Delay) /\ x - (Out + Delay) \in 1 .. n
      BY <1>1, <1>2, <2>3
    <3>2. Fed(Delay, senderLine, in, x - Out) = in[x - (Out + Delay)]
      BY <3>1 DEF Fed
    <3> QED BY <1>4, <1>5, <2>3, <3>1, <3>2, StreamSample
  <2>4. CASE ~(x <= Out + Delay) /\ ~(x <= Out + Delay + n)
    <3>1. /\ ~(x <= Out' + Delay) /\ x - (Out' + Delay) \in 1 .. Len(frame) - n
          /\ n + (x - (Out' + Delay)) = x - (Out + Delay)
          /\ ~(x <= Out')
      BY <1>1, <1>2, <1>5, <1>6, <2>4
    <3>2. Stream' = [j \in 1 .. Made' |->
             IF j <= Out' THEN air'[Ends(j)]
             ELSE IF j <= Out' + Delay THEN senderLine'[j - Out']
             ELSE frame'[j - (Out' + Delay)]]
      BY DEF Stream
    <3>3. Stream'[x] = frame'[x - (Out' + Delay)]
      BY <1>6, <3>1, <3>2
    <3> QED BY <1>4, <2>4, <3>1, <3>3, StreamSample
  <2> QED BY <2>1, <2>2, <2>3, <2>4
<1> QED BY <1>6, <1>7

(* A zero of send_dummy_samples(). *)
LEMMA DummyMoves ==
  ASSUME SenderTypes, Repeated, S!SendDummy, SenderTypes', frame = <<>>
  PROVE  /\ Made' = Made + 1 /\ \A x \in 1 .. Made : Stream'[x] = Stream[x]
         /\ Stream'[Made + 1] = Zero
<1>1. Out \in Nat /\ Delay \in Nat /\ Made \in Nat /\ Made = Out + Delay
  BY OutFacts DEF Made
<1>2. S!Transmit(<<Zero>>) /\ frame' = frame
  BY ZeroSample DEF S!SendDummy
<1>3. /\ Out' = Out + 1
      /\ \A x \in 1 .. Out + Delay + 1 :
           /\ x <= Out /\ x \in 1 .. Made => Stream'[x] = Stream[x]
           /\ ~(x <= Out) => Stream'[x] = Fed(Delay, senderLine, <<Zero>>, x - Out)
  <2>1. <<Zero>> \in Seq(SampleSet) /\ Len(<<Zero>>) = 1
    BY ZeroSample
  <2> DEFINE in == <<Zero>>
  <2> HIDE DEF in
  <2>2. in \in Seq(SampleSet) /\ Len(in) = 1 /\ S!Transmit(in)
    BY <1>2, <2>1 DEF in
  <2>3. /\ Out' = Out + 1
        /\ \A x \in 1 .. Out + Delay + 1 :
             /\ x <= Out /\ x \in 1 .. Made => Stream'[x] = Stream[x]
             /\ ~(x <= Out) => Stream'[x] = Fed(Delay, senderLine, in, x - Out)
    BY <2>2, StreamMoves
  <2> QED BY <2>3 DEF in
<1>4. Made' = Made + 1
  <2>1. Made' = Out' + Delay + Len(frame')
    BY DEF Made
  <2> QED BY <1>1, <1>2, <1>3, <2>1
<1>5. ASSUME NEW x \in 1 .. Made PROVE Stream'[x] = Stream[x]
  <2>1. x \in 1 .. Out + Delay + 1 /\ x <= Out + Delay
    BY <1>1
  <2>2. CASE x <= Out
    BY <1>3, <2>1, <2>2
  <2>3. CASE ~(x <= Out)
    <3>1. x - Out <= Delay
      BY <1>1, <2>1
    <3>2. Fed(Delay, senderLine, <<Zero>>, x - Out) = senderLine[x - Out]
      BY <3>1 DEF Fed
    <3> QED BY <1>3, <2>1, <2>3, <3>2, StreamSample
  <2> QED BY <2>2, <2>3
<1>6. Stream'[Made + 1] = Zero
  <2>1. Made + 1 \in 1 .. Out + Delay + 1 /\ ~(Made + 1 <= Out)
    BY <1>1, SamplesAssumption
  <2>2. (Made + 1) - Out = Delay + 1 /\ ~(Delay + 1 <= Delay) /\ (Delay + 1) - Delay = 1
    BY <1>1
  <2>3. Fed(Delay, senderLine, <<Zero>>, (Made + 1) - Out) = <<Zero>>[1]
    BY <2>2 DEF Fed
  <2> QED BY <1>3, <2>1, <2>3
<1> QED BY <1>4, <1>5, <1>6
-----------------------------------------------------------------------------
(* The frames in the stream. *)

(* A payload is not empty.                                                  *)
LEMMA PayloadFacts ==
  ASSUME NEW payload \in Payloads
  PROVE  Len(payload) \in Nat \ {0} /\ payload \in Seq(Nat)
<1>1. PICK first \in 0 .. DataSize, n \in 1 .. PayloadSize : payload = S!Units(first, n)
  BY DEF Payloads
<1>2. first \in Nat /\ n \in Nat \ {0}
  BY LinkAssumption
<1>3. S!Units(first, n) = [i \in 1 .. n |-> first + i]
  BY DEF S!Units
<1> QED BY <1>1, <1>2, <1>3

(* A frame has a header and a payload, so that it has two samples at least. *)
LEMMA FrameFacts ==
  ASSUME SenderTypes, NEW i \in 1 .. Len(sent)
  PROVE  sent[i] \in Payloads /\ FrameLen(i) \in Nat /\ FrameLen(i) >= 2
                              /\ FrameLen(i) = HeaderLen + Len(sent[i])
<1>1. sent[i] \in Payloads
  BY ElementOfSeq DEF SenderTypes
<1>2. Len(sent[i]) \in Nat \ {0}
  BY <1>1, PayloadFacts
<1> QED BY <1>1, <1>2, SamplesAssumption DEF FrameLen

(* A sample of a frame is neither zero nor noise and shows what it is of.   *)
LEMMA SampleFacts ==
  ASSUME NEW number, NEW payload, NEW k
  PROVE  /\ Sample(number, payload, k) # Zero /\ Sample(number, payload, k) # R!Noise
         /\ Sample(number, payload, k)[1] = Header(Id, number)
         /\ Sample(number, payload, k)[2] = payload /\ Sample(number, payload, k)[3] = k
         /\ Len(Sample(number, payload, k)) = 3
<1>1. Len(Sample(number, payload, k)) = 3 /\ Len(Zero) = 0 /\ Len(R!Noise) = 1
  BY DEF Sample, Zero, R!Noise
<1> QED BY <1>1 DEF Sample

(* Zeros, or nothing, after the stream. *)
LEMMA LaidKept ==
  ASSUME SenderTypes, NEW place \in [1 .. Len(sent) -> Nat], NEW number, Laid(place, number),
         sent' = sent, Made' \in Nat, Made <= Made',
         \A x \in 1 .. Made : Stream'[x] = Stream[x],
         \A x \in 1 .. Made' : ~(x <= Made) => Stream'[x] = Zero
  PROVE  Laid(place, number)'
<1> DEFINE N == Len(sent)
<1>1. Made \in Nat /\ N \in Nat
  BY OutFacts DEF SenderTypes
<1>2. \A i : FrameLen(i)' = FrameLen(i)
  BY DEF FrameLen
<1>3. ASSUME NEW i \in 1 .. N
      PROVE  /\ place[i] + FrameLen(i) <= Made'
             /\ \A k \in 1 .. FrameLen(i) : Stream'[place[i] + k] = Sample(number[i], sent[i], k)
  <2>1. /\ place[i] \in Nat /\ FrameLen(i) \in Nat
        /\ place[i] + FrameLen(i) <= Made
        /\ \A k \in 1 .. FrameLen(i) : Stream[place[i] + k] = Sample(number[i], sent[i], k)
    BY FrameFacts DEF Laid
  <2>2. \A k \in 1 .. FrameLen(i) : place[i] + k \in 1 .. Made
    BY <1>1, <2>1
  <2> QED BY <1>1, <2>1, <2>2
<1>4. ASSUME NEW x \in 1 .. Made'
      PROVE  \/ Stream'[x] = Zero
             \/ \E i \in 1 .. N : \E k \in 1 .. FrameLen(i) : x = place[i] + k
  <2>1. x <= Made => x \in 1 .. Made
    BY <1>1
  <2> QED BY <2>1 DEF Laid
<1>5. \A i, j \in 1 .. N : i < j => place[i] + FrameLen(i) <= place[j]
  BY DEF Laid
<1> QED BY <1>2, <1>3, <1>4, <1>5 DEF Laid

(* A frame is made. *)
LEMMA PayloadMoves ==
  ASSUME SenderTypes, S!ReadPayload, frame = <<>>
  PROVE  \E payload \in Payloads :
           /\ sent' = Append(sent, payload)
           /\ frame' \in Seq(SampleSet) /\ frame' # <<>>
           /\ Made' = Made + HeaderLen + Len(payload)
           /\ \A x \in 1 .. Made : Stream'[x] = Stream[x]
           /\ \A k \in 1 .. HeaderLen + Len(payload) :
                Stream'[Made + k] = Sample(counter, payload, k)
<1> DEFINE n == S!Least(PayloadSize, avail - pos)
           payload == S!Units(pos, n)
           len == HeaderLen + Len(payload)
<1>1. /\ sent' = Append(sent, payload)
      /\ frame' = S!FrameSamples(S!Header(Id, counter), payload)
      /\ pos < avail
      /\ UNCHANGED <<air, senderLine>>
  BY DEF S!ReadPayload, S!radioVars
<1>2. n \in 1 .. PayloadSize /\ pos \in 0 .. DataSize
  <2>1. pos \in Nat /\ avail \in Nat /\ avail <= DataSize /\ pos <= avail
    BY LinkAssumption DEF SenderTypes
  <2> QED BY <1>1, <2>1, LinkAssumption DEF S!Least
<1>3. payload \in Payloads /\ Len(payload) \in Nat \ {0} /\ counter \in Nat
  <2>1. payload \in Payloads
    BY <1>2 DEF Payloads
  <2> HIDE DEF payload
  <2> QED BY <2>1, PayloadFacts DEF SenderTypes
<1> HIDE DEF payload
<1>4. len \in Nat \ {0}
  BY <1>3, SamplesAssumption
<1>5. frame' = [k \in 1 .. len |-> Sample(counter, payload, k)]
  BY <1>1 DEF S!FrameSamples, S!Header, Sample, Header
<1>6. \A k \in 1 .. len : Sample(counter, payload, k) \in SampleSet
  BY <1>3, <1>4 DEF SampleSet
<1>7. frame' \in Seq(SampleSet) /\ Len(frame') = len /\ frame' # <<>>
  <2> HIDE DEF len
  <2>1. frame' \in Seq(SampleSet) /\ Len(frame') = len
    BY <1>4, <1>5, <1>6
  <2> QED BY <1>4, <2>1
<1> HIDE DEF len
<1>8. /\ Out \in Nat /\ Delay \in Nat /\ Made \in Nat /\ Made = Out + Delay
      /\ Out' = Out
  BY <1>1, OutFacts DEF Made, Out
<1>9. Made' = Made + len
  <2>1. Made' = Out' + Delay + Len(frame')
    BY DEF Made
  <2> QED BY <1>7, <1>8, <2>1
<1>10. Stream' = [j \in 1 .. Made' |->
             IF j <= Out THEN air[Ends(j)]
             ELSE IF j <= Out + Delay THEN senderLine[j - Out]
             ELSE frame'[j - (Out + Delay)]]
  BY <1>1, <1>8 DEF Stream
<1>11. ASSUME NEW x \in 1 .. Made PROVE Stream'[x] = Stream[x]
  <2>1. x \in 1 .. Made' /\ x <= Out + Delay
    BY <1>4, <1>8, <1>9
  <2> QED BY <1>10, <2>1, StreamSample
<1>12. ASSUME NEW k \in 1 .. len PROVE Stream'[Made + k] = Sample(counter, payload, k)
  <2>1. /\ Made + k \in 1 .. Made' /\ ~(Made + k <= Out) /\ ~(Made + k <= Out + Delay)
        /\ (Made + k) - (Out + Delay) = k
    BY <1>4, <1>8, <1>9
  <2>2. Stream'[Made + k] = frame'[k]
    BY <1>10, <2>1
  <2> QED BY <1>5, <2>2
<1>13. Made' = Made + HeaderLen + Len(payload)
  BY <1>3, <1>8, <1>9, SamplesAssumption DEF len
<1> QED BY <1>1, <1>3, <1>7, <1>11, <1>12, <1>13 DEF len

(* The positions and the numbers of the frames, with one more. *)
More(f, n, value) == [i \in 1 .. n + 1 |-> IF i = n + 1 THEN value ELSE f[i]]

(* One more position leaves the others as they are.                         *)
LEMMA MoreFacts ==
  ASSUME NEW n \in Nat, NEW f \in [1 .. n -> Nat], NEW value \in Nat
  PROVE  /\ More(f, n, value) \in [1 .. n + 1 -> Nat]
         /\ \A i \in 1 .. n : More(f, n, value)[i] = f[i]
         /\ More(f, n, value)[n + 1] = value
<1>1. \A i \in 1 .. n + 1 : i = n + 1 \/ i \in 1 .. n
  OBVIOUS
<1>2. \A i \in 1 .. n : i \in 1 .. n + 1 /\ i # n + 1
  OBVIOUS
<1> QED BY <1>1, <1>2 DEF More

(* A frame made after all the rest is laid like the others.                 *)
LEMMA LaidMore ==
  ASSUME SenderTypes, NEW N \in Nat, N = Len(sent), NEW m \in Nat, m = Made,
         NEW place \in [1 .. N -> Nat], NEW number \in [1 .. N -> Nat],
         Laid(place, number), NEW payload \in Payloads, sent' = Append(sent, payload), NEW c \in Nat,
         Made' = Made + HeaderLen + Len(payload),
         \A x \in 1 .. Made : Stream'[x] = Stream[x],
         \A k \in 1 .. HeaderLen + Len(payload) : Stream'[Made + k] = Sample(c, payload, k)
  PROVE  Laid(More(place, N, m), More(number, N, c))'
<1>1. Made \in Nat /\ Len(payload) \in Nat \ {0} /\ HeaderLen \in Nat
  BY OutFacts, PayloadFacts, SamplesAssumption
<1> DEFINE p == More(place, N, m)
           q == More(number, N, c)
<1>2. /\ p \in [1 .. N + 1 -> Nat] /\ q \in [1 .. N + 1 -> Nat]
      /\ \A i \in 1 .. N : p[i] = place[i] /\ q[i] = number[i]
      /\ p[N + 1] = m /\ q[N + 1] = c
  <2>1. /\ p \in [1 .. N + 1 -> Nat] /\ \A i \in 1 .. N : p[i] = place[i]
        /\ p[N + 1] = m
    BY MoreFacts
  <2>2. /\ q \in [1 .. N + 1 -> Nat] /\ \A i \in 1 .. N : q[i] = number[i]
        /\ q[N + 1] = c
    BY MoreFacts
  <2> HIDE DEF p, q
  <2> QED BY <2>1, <2>2
<1> HIDE DEF p, q
<1>3. /\ Len(sent') = N + 1 /\ sent'[N + 1] = payload
      /\ \A i \in 1 .. N : sent'[i] = sent[i]
  <2>1. sent \in Seq(Payloads)
    BY DEF SenderTypes
  <2> QED BY <2>1, AppendProperties
<1>4. /\ \A i \in 1 .. N : FrameLen(i)' = FrameLen(i) /\ FrameLen(i) \in Nat
      /\ FrameLen(N + 1)' = HeaderLen + Len(payload)
      /\ HeaderLen + Len(payload) \in Nat
  <2>1. \A i \in 1 .. N : FrameLen(i) \in Nat
    BY FrameFacts
  <2>2. \A i : FrameLen(i)' = HeaderLen + Len(sent'[i])
    BY DEF FrameLen
  <2>3. \A i \in 1 .. N : FrameLen(i) = HeaderLen + Len(sent[i])
    BY DEF FrameLen
  <2>4. \A i \in 1 .. N : FrameLen(i)' = FrameLen(i)
    BY <1>3, <2>2, <2>3
  <2>5. FrameLen(N + 1)' = HeaderLen + Len(payload)
    BY <1>3, <2>2
  <2>6. HeaderLen + Len(payload) \in Nat
    BY <1>1
  <2> QED BY <2>1, <2>4, <2>5, <2>6
<1>5. Made' = m + (HeaderLen + Len(payload))
  BY <1>1
<1>6. \A i \in 1 .. N + 1 : i = N + 1 \/ i \in 1 .. N
  OBVIOUS
<1>7. ASSUME NEW i \in 1 .. N
      PROVE  /\ p[i] \in Nat
             /\ p[i] + FrameLen(i) <= m
             /\ \A k \in 1 .. FrameLen(i) : Stream'[p[i] + k] = Sample(number[i], sent[i], k)
  <2>1. /\ place[i] \in Nat /\ FrameLen(i) \in Nat
        /\ place[i] + FrameLen(i) <= Made
        /\ \A k \in 1 .. FrameLen(i) : Stream[place[i] + k] = Sample(number[i], sent[i], k)
    BY <1>4 DEF Laid
  <2>2. \A k \in 1 .. FrameLen(i) : place[i] + k \in 1 .. Made
    BY <1>1, <2>1
  <2> QED BY <1>2, <2>1, <2>2
<1>8. ASSUME NEW i \in 1 .. N + 1
      PROVE  /\ p[i] + FrameLen(i)' <= Made'
             /\ \A k \in 1 .. FrameLen(i)' : Stream'[p[i] + k] = Sample(q[i], sent'[i], k)
  <2>1. CASE i = N + 1
    <3>1. FrameLen(i)' = HeaderLen + Len(payload) /\ p[i] = m /\ q[i] = c /\ sent'[i] = payload
      BY <1>2, <1>3, <1>4, <2>1
    <3>2. p[i] + FrameLen(i)' <= Made'
      BY <1>4, <1>5, <3>1
    <3> QED BY <3>1, <3>2
  <2>2. CASE i \in 1 .. N
    <3>1. p[i] + FrameLen(i) <= Made'
      BY <1>4, <1>5, <1>7, <2>2
    <3> QED BY <1>2, <1>3, <1>4, <1>7, <2>2, <3>1
  <2> QED BY <1>6, <2>1, <2>2
<1>9. ASSUME NEW i \in 1 .. N + 1, NEW j \in 1 .. N + 1, i < j
       PROVE  p[i] + FrameLen(i)' <= p[j]
  <2>1. i \in 1 .. N
    BY <1>6, <1>9
  <2>2. CASE j = N + 1
    BY <1>2, <1>4, <1>7, <2>1, <2>2
  <2>3. CASE j \in 1 .. N
    <3>1. place[i] + FrameLen(i) <= place[j]
      BY <1>9, <2>1, <2>3 DEF Laid
    <3> QED BY <1>2, <1>4, <2>1, <2>3, <3>1
  <2> QED BY <1>6, <2>2, <2>3
<1>10. ASSUME NEW x \in 1 .. Made'
       PROVE  \/ Stream'[x] = Zero
              \/ \E i \in 1 .. N + 1 : \E k \in 1 .. FrameLen(i)' : x = p[i] + k
  <2>1. CASE x \in 1 .. Made
    <3>1. Stream'[x] = Stream[x]
      BY <2>1
    <3>2. CASE Stream[x] # Zero
      <4>1. PICK i \in 1 .. N : \E k \in 1 .. FrameLen(i) : x = place[i] + k
        BY <2>1, <3>2 DEF Laid
      <4>2. i \in 1 .. N + 1
        OBVIOUS
      <4> QED BY <1>2, <1>4, <4>1, <4>2
    <3> QED BY <3>1, <3>2
  <2>2. CASE x \notin 1 .. Made
    <3>1. x - m \in 1 .. HeaderLen + Len(payload) /\ x = m + (x - m)
      BY <1>1, <1>5, <2>2
    <3>2. N + 1 \in 1 .. N + 1
      OBVIOUS
    <3> QED BY <1>2, <1>4, <3>1, <3>2
  <2> QED BY <2>1, <2>2
<1>11. Laid(p, q)'
  BY <1>3, <1>8, <1>9, <1>10 DEF Laid
<1> QED BY <1>11 DEF p, q
-----------------------------------------------------------------------------
(* The steps of the sender. *)

SenderInv == SenderTypes /\ Repeated /\ SenderPlace /\ SenderReads

(* The stream is the same, or has one more zero. *)
Silent ==
  /\ sent' = sent
  /\ Made' \in Nat /\ Made <= Made'
  /\ \A x \in 1 .. Made : Stream'[x] = Stream[x]
  /\ \A x \in 1 .. Made' : ~(x <= Made) => Stream'[x] = Zero

(* The radio has what it had, and perhaps more. *)
AirGrows ==
  /\ Len(air) <= Len(air')
  /\ \A x \in 1 .. Len(air) : air'[x] = air[x]

(* A step that leaves what was made alone changes nothing in the stream.    *)
LEMMA StreamUntouched ==
  ASSUME SenderTypes, UNCHANGED <<sent, frame, senderLine, air>>
  PROVE  Silent /\ AirGrows
<1>1. Made \in Nat /\ Len(air) \in Nat
  BY OutFacts
<1>2. Made' = Made /\ Stream' = Stream
  BY DEF Made, Stream, Out
<1>3. \A x \in 1 .. Made' : x <= Made
  BY <1>1, <1>2
<1> QED BY <1>1, <1>2, <1>3 DEF Silent, AirGrows

(* The start of the transfer of the sender.                                 *)
LEMMA SenderStarts ==
  ASSUME SenderInv, S!Start
  PROVE  SenderInv' /\ Silent /\ AirGrows
<1> USE DEF S!Start, S!sourceVars, S!readVars, S!generatorVars, S!radioVars
<1>1. /\ senderPc = "created" /\ senderPc' = "read"
      /\ UNCHANGED <<avail, sourceClosed, pos, eof, idle, sent, frame, counter, pad, ending,
                     senderLine, senderPhase, air>>
  OBVIOUS
<1>2. SenderTypes' /\ Repeated'
  BY <1>1 DEF SenderInv, SenderTypes, Repeated, Out
<1>3. SenderPlace'
  BY <1>1 DEF SenderInv, SenderPlace
<1>4. SenderReads'
  BY <1>1 DEF SenderInv, SenderReads, SenderPlace, S!Units
<1> QED BY <1>1, <1>2, <1>3, <1>4, StreamUntouched DEF SenderInv

(* The sender leaves its loop.                                              *)
LEMMA SenderLeaves ==
  ASSUME SenderInv, S!LeaveLoop
  PROVE  SenderInv' /\ Silent /\ AirGrows
<1> USE DEF S!LeaveLoop, S!sourceVars, S!readVars, S!generatorVars, S!radioVars
<1>1. /\ senderPc = "read" /\ senderPc' = "dummy" /\ (S!Stopped \/ eof)
      /\ ending' = TRUE /\ pad' = Delay /\ S!Stopped' = S!Stopped
      /\ UNCHANGED <<avail, sourceClosed, pos, eof, sent, frame, counter,
                     senderLine, senderPhase, air>>
  BY DEF S!FlushLength, S!Stopped
<1>2. SenderTypes' /\ Repeated'
  BY <1>1, SamplesAssumption DEF SenderInv, SenderTypes, Repeated, Out
<1>3. SenderPlace'
  <2>1. Delay > 0 /\ \A m \in 1 .. Delay : ~(m > Delay)
    BY SamplesAssumption
  <2> QED BY <1>1, <2>1 DEF SenderInv, SenderPlace
<1>4. SenderReads'
  BY <1>1 DEF SenderInv, SenderReads, S!Units
<1> QED BY <1>1, <1>2, <1>3, <1>4, StreamUntouched DEF SenderInv

(* The source of the sender is empty for a moment.                          *)
LEMMA SenderWaits ==
  ASSUME SenderInv, S!ReadNothing
  PROVE  SenderInv' /\ Silent /\ AirGrows
<1> USE DEF S!ReadNothing, S!sourceVars, S!readVars, S!generatorVars, S!radioVars
<1>1. /\ senderPc = "read" /\ senderPc' = "dummy" /\ pos = avail
      /\ eof' = sourceClosed /\ pad' = Delay /\ S!Stopped' = S!Stopped
      /\ UNCHANGED <<avail, sourceClosed, pos, ending, sent, frame, counter,
                     senderLine, senderPhase, air>>
  BY DEF S!FlushLength, S!Stopped
<1>2. SenderTypes' /\ Repeated'
  BY <1>1, SamplesAssumption DEF SenderInv, SenderTypes, Repeated, Out
<1>3. SenderPlace'
  <2>1. Delay > 0 /\ \A m \in 1 .. Delay : ~(m > Delay)
    BY SamplesAssumption
  <2> QED BY <1>1, <2>1 DEF SenderInv, SenderPlace
<1>4. SenderReads'
  BY <1>1 DEF SenderInv, SenderReads, SenderPlace, S!Units
<1> QED BY <1>1, <1>2, <1>3, <1>4, StreamUntouched DEF SenderInv

(* The frame counter stays a number.                                        *)
LEMMA CounterMoves ==
  ASSUME NEW n \in Nat
  PROVE  (n + 1) % CounterValues \in Nat
<1>1. n + 1 \in Nat /\ CounterValues \in Nat \ {0}
  BY LinkAssumption
<1>2. (n + 1) % CounterValues \in 0 .. CounterValues - 1
  BY <1>1, Division
<1> QED BY <1>1, <1>2

(* A block of a frame goes from the frame to the filter and the air.        *)
LEMMA SenderSendsBlock ==
  ASSUME SenderInv, S!SendBlock
  PROVE  SenderInv' /\ Silent /\ AirGrows
<1> USE DEF S!SendBlock, S!sourceVars, S!readVars
<1> DEFINE n == S!Least(BlockSize, Len(frame))
           in == SubSeq(frame, 1, n)
<1>1. /\ senderPc = "frame" /\ S!Transmit(in) /\ frame' = SubSeq(frame, n + 1, Len(frame))
      /\ S!Stopped' = S!Stopped
      /\ UNCHANGED <<avail, sourceClosed, pos, eof, sent, pad, ending>>
  BY DEF S!Stopped
<1>2. n \in 0 .. Len(frame) /\ frame \in Seq(SampleSet) /\ Len(frame) \in Nat
  BY LinkAssumption DEF S!Least, SenderInv, SenderTypes
<1>3. counter' \in Nat
  <2>1. counter \in Nat
    BY DEF SenderInv, SenderTypes
  <2>2. counter' = counter \/ counter' = (counter + 1) % CounterValues
    OBVIOUS
  <2> QED BY <2>1, <2>2, CounterMoves
<1> HIDE DEF n
<1>4. in \in Seq(SampleSet) /\ frame' \in Seq(SampleSet)
  BY <1>1, <1>2, Cut
<1> HIDE DEF in
<1>5. /\ senderLine' \in Seq(SampleSet) /\ Len(senderLine') = Delay
      /\ air' \in Seq(SampleSet) /\ Len(air) <= Len(air')
      /\ Repeated'
      /\ \A x \in 1 .. Len(air) : air'[x] = air[x]
      /\ senderPc' = S!Caller(frame', pad')
  BY <1>1, <1>4, Transmission DEF SenderInv
<1>6. SenderTypes'
  BY <1>1, <1>3, <1>4, <1>5 DEF SenderInv, SenderTypes
<1>7. SenderPlace' /\ senderPc' \in {"frame", "read"}
  <2>1. pad = 0 /\ ~ending /\ pad' = 0 /\ ~ending'
    BY <1>1 DEF SenderInv, SenderPlace
  <2>2. \/ senderPc' = "frame" /\ frame' # <<>>
        \/ senderPc' = "read" /\ frame' = <<>>
    <3>1. S!Caller(frame', 0) = IF frame' # <<>> THEN "frame" ELSE IF 0 > 0 THEN "dummy"
                                ELSE IF ending THEN "done" ELSE "read"
      BY DEF S!Caller
    <3>2. ~(0 > 0)
      OBVIOUS
    <3>3. senderPc' = S!Caller(frame', 0)
      BY <1>5, <2>1
    <3> QED BY <2>1, <3>1, <3>2, <3>3
  <2> QED BY <2>1, <2>2 DEF SenderPlace
<1>8. SenderReads'
  BY <1>1, <1>7 DEF SenderInv, SenderReads, S!Units
<1>9. Silent
  <2>1. Made' = Made /\ (\A x \in 1 .. Made : Stream'[x] = Stream[x]) /\ Made \in Nat
    BY <1>6, BlockMoves, OutFacts DEF SenderInv
  <2>2. \A x \in 1 .. Made' : x <= Made
    BY <2>1
  <2> QED BY <1>1, <2>1, <2>2 DEF Silent
<1>10. AirGrows
  BY <1>5 DEF AirGrows
<1> QED BY <1>5, <1>6, <1>7, <1>8, <1>9, <1>10 DEF SenderInv

(* A zero goes into the filter: the stream has one more zero.               *)
LEMMA SenderSendsDummy ==
  ASSUME SenderInv, S!SendDummy
  PROVE  SenderInv' /\ Silent /\ AirGrows
<1> USE DEF S!SendDummy, S!sourceVars, S!readVars
<1> DEFINE in == <<Zero>>
<1>1. /\ senderPc = "dummy" /\ S!Transmit(in) /\ pad' = pad - 1
      /\ S!Stopped' = S!Stopped
      /\ UNCHANGED <<avail, sourceClosed, pos, eof, sent, frame, counter, ending>>
  BY ZeroSample DEF S!Stopped
<1>2. in \in Seq(SampleSet) /\ Len(in) = 1 /\ in[1] = Zero
  BY ZeroSample
<1>3. frame = <<>> /\ pad \in Nat /\ pad <= Delay /\ pad > 0 /\ Delay \in Nat
  BY <1>1, SamplesAssumption DEF SenderInv, SenderPlace, SenderTypes
<1> HIDE DEF in
<1>4. /\ senderLine' \in Seq(SampleSet) /\ Len(senderLine') = Delay
      /\ air' \in Seq(SampleSet) /\ Len(air) <= Len(air')
      /\ Repeated'
      /\ \A x \in 1 .. Len(air) : air'[x] = air[x]
      /\ \A m \in 1 .. Delay : senderLine'[m] = Fed(Delay, senderLine, in, Len(in) + m)
      /\ senderPc' = S!Caller(frame', pad')
  BY <1>1, <1>2, Transmission DEF SenderInv
<1>5. pad' \in 0 .. Delay /\ pad' \in Nat
  BY <1>1, <1>3
<1>6. SenderTypes'
  BY <1>1, <1>4, <1>5 DEF SenderInv, SenderTypes
<1>7. ASSUME NEW m \in 1 .. Delay, m > pad' PROVE senderLine'[m] = Zero
  <2>1. senderLine'[m] = Fed(Delay, senderLine, in, m + 1)
    BY <1>2, <1>4
  <2>2. CASE m + 1 <= Delay
    <3>1. m + 1 \in 1 .. Delay /\ m + 1 > pad
      BY <1>1, <1>3, <1>7, <2>2
    <3>2. senderLine[m + 1] = Zero
      BY <1>1, <3>1 DEF SenderInv, SenderPlace
    <3> QED BY <2>1, <2>2, <3>2 DEF Fed
  <2>3. CASE ~(m + 1 <= Delay)
    <3>1. (m + 1) - Delay = 1
      BY <1>3, <2>3
    <3> QED BY <1>2, <2>1, <2>3, <3>1 DEF Fed
  <2> QED BY <2>2, <2>3
<1>8. SenderPlace' /\ (senderPc' = "done" => ending)
  <2>1. senderPc' = IF pad' > 0 THEN "dummy" ELSE IF ending THEN "done" ELSE "read"
    BY <1>1, <1>3, <1>4 DEF S!Caller
  <2>2. ~(pad' > 0) => pad' = 0
    <3>1. \A q \in Nat : ~(q > 0) => q = 0
      OBVIOUS
    <3> QED BY <1>5, <3>1
  <2> QED BY <1>1, <1>3, <1>7, <2>1, <2>2 DEF SenderPlace
<1>9. SenderReads'
  BY <1>1, <1>8 DEF SenderInv, SenderReads, S!Units
<1>10. Silent
  <2>1. /\ Made' = Made + 1 /\ \A x \in 1 .. Made : Stream'[x] = Stream[x]
        /\ Stream'[Made + 1] = Zero
    BY <1>3, <1>6, DummyMoves DEF SenderInv
  <2>2. Made \in Nat
    BY OutFacts DEF SenderInv
  <2>3. \A x \in 1 .. Made' : ~(x <= Made) => x = Made + 1
    BY <2>1, <2>2
  <2> QED BY <1>1, <2>1, <2>2, <2>3 DEF Silent
<1>11. AirGrows
  BY <1>4 DEF AirGrows
<1> QED BY <1>4, <1>6, <1>8, <1>9, <1>10, <1>11 DEF SenderInv

(* The stream is longer by a frame. *)
NewFrame ==
  \E payload \in Payloads :
    /\ sent' = Append(sent, payload)
    /\ Made' = Made + HeaderLen + Len(payload)
    /\ \A x \in 1 .. Made : Stream'[x] = Stream[x]
    /\ \A k \in 1 .. HeaderLen + Len(payload) : Stream'[Made + k] = Sample(counter, payload, k)

(* Data read in two pieces is the data.                                     *)
LEMMA UnitsContinue ==
  ASSUME NEW a \in Nat, NEW n \in Nat
  PROVE  S!Units(0, a) \o S!Units(a, n) = S!Units(0, a + n)
<1> DEFINE s == S!Units(0, a)
           t == S!Units(a, n)
           u == S!Units(0, a + n)
<1>1. /\ s \in Seq(Nat) /\ Len(s) = a /\ t \in Seq(Nat) /\ Len(t) = n
      /\ u \in Seq(Nat) /\ Len(u) = a + n
      /\ \A i \in 1 .. a : s[i] = i
      /\ \A i \in 1 .. n : t[i] = a + i
      /\ \A i \in 1 .. a + n : u[i] = i
  BY DEF S!Units
<1> HIDE DEF s, t, u
<1>2. PICK all : Joins(all, s, t)
  BY DEF Joins
<1>3. all \in Seq(Nat) /\ Len(all) = a + n
      /\ (\A k \in 1 .. a : all[k] = s[k]) /\ (\A k \in 1 .. n : all[a + k] = t[k])
  <2>1. s \in Seq(Nat) /\ t \in Seq(Nat)
    BY <1>1
  <2>2. /\ all \in Seq(Nat) /\ Len(all) = Len(s) + Len(t)
        /\ (\A k \in 1 .. Len(s) : all[k] = s[k])
        /\ (\A k \in 1 .. Len(t) : all[Len(s) + k] = t[k])
    BY <1>2, <2>1, JoinsFacts
  <2> QED BY <1>1, <2>2
<1>4. ASSUME NEW i \in 1 .. a + n PROVE all[i] = u[i]
  <2>1. CASE i <= a
    <3>1. i \in 1 .. a
      BY <2>1
    <3> QED BY <1>1, <1>3, <3>1
  <2>2. CASE ~(i <= a)
    <3>1. i - a \in 1 .. n /\ a + (i - a) = i
      BY <2>2
    <3> QED BY <1>1, <1>3, <3>1
  <2> QED BY <2>1, <2>2
<1>5. all = u
  BY <1>1, <1>3, <1>4
<1> QED BY <1>2, <1>5 DEF Joins, s, t, u

(* A payload more is its units more.                                        *)
LEMMA SentFlattens ==
  ASSUME SenderTypes, NEW payload \in Payloads
  PROVE  FlattenSeq(Append(sent, payload)) = FlattenSeq(sent) \o payload
<1>1. \A p \in Payloads : p \in Seq(Nat)
  BY PayloadFacts
<1>2. sent \in Seq(Seq(Nat))
  BY <1>1 DEF SenderTypes
<1> QED BY <1>1, <1>2, FlattenFacts

(* A payload that is read is a new frame of the stream.                     *)
LEMMA SenderReadsPayload ==
  ASSUME SenderInv, S!ReadPayload
  PROVE  SenderInv' /\ NewFrame /\ AirGrows
<1> USE DEF S!sourceVars, S!radioVars
<1> DEFINE n == S!Least(PayloadSize, avail - pos)
           unit == S!Units(pos, n)
<1>1. /\ senderPc = "read" /\ senderPc' = "frame" /\ pos < avail
      /\ pos' = pos + n /\ eof' = (sourceClosed /\ n < PayloadSize)
      /\ sent' = Append(sent, unit)
      /\ S!Stopped' = S!Stopped
      /\ UNCHANGED <<avail, sourceClosed, counter, pad, ending, senderLine, senderPhase, air>>
  BY DEF S!ReadPayload, S!Stopped
<1>2. frame = <<>> /\ pad = 0 /\ ~ending
  BY <1>1 DEF SenderInv, SenderPlace
<1>3. /\ NewFrame /\ frame' \in Seq(SampleSet) /\ frame' # <<>> /\ sent' \in Seq(Payloads)
      /\ unit \in Payloads
  <2>1. PICK payload \in Payloads :
           /\ sent' = Append(sent, payload)
           /\ frame' \in Seq(SampleSet) /\ frame' # <<>>
           /\ Made' = Made + HeaderLen + Len(payload)
           /\ \A x \in 1 .. Made : Stream'[x] = Stream[x]
           /\ \A k \in 1 .. HeaderLen + Len(payload) :
                Stream'[Made + k] = Sample(counter, payload, k)
    BY <1>2, PayloadMoves DEF SenderInv
  <2>2. sent \in Seq(Payloads)
    BY DEF SenderInv, SenderTypes
  <2>3. payload = unit
    <3>1. Append(sent, payload)[Len(sent) + 1] = payload
      BY <2>2
    <3>2. Append(sent, unit)[Len(sent) + 1] = unit
      BY <2>2
    <3> QED BY <1>1, <2>1, <3>1, <3>2
  <2> QED BY <2>1, <2>2, <2>3 DEF NewFrame
<1>4. pos \in Nat /\ avail \in Nat /\ avail <= DataSize /\ PayloadSize \in Nat \ {0}
  BY LinkAssumption DEF SenderInv, SenderTypes
<1>5. n \in Nat /\ pos + n <= avail /\ (n < PayloadSize => pos + n = avail)
  BY <1>1, <1>4 DEF S!Least
<1> HIDE DEF n
<1>6. SenderTypes'
  <2>1. pos' \in 0 .. avail'
    BY <1>1, <1>4, <1>5
  <2> QED BY <1>1, <1>3, <2>1 DEF SenderInv, SenderTypes
<1>7. Repeated'
  BY <1>1 DEF SenderInv, Repeated, Out
<1>8. SenderPlace'
  BY <1>1, <1>2, <1>3 DEF SenderPlace
<1>9. FlattenSeq(sent') = S!Units(0, pos')
  <2>1. FlattenSeq(sent') = S!Units(0, pos) \o unit
    <3>1. FlattenSeq(sent) = S!Units(0, pos)
      BY DEF SenderInv, SenderReads
    <3>2. FlattenSeq(Append(sent, unit)) = FlattenSeq(sent) \o unit
      <4> HIDE DEF unit
      <4> QED BY <1>3, SentFlattens DEF SenderInv
    <3> QED BY <1>1, <3>1, <3>2
  <2> QED BY <1>1, <1>4, <1>5, <2>1, UnitsContinue
<1>10. SenderReads'
  <2>1. eof' => sourceClosed' /\ pos' = avail'
    BY <1>1, <1>5
  <2>2. (FlattenSeq(sent) = S!Units(0, pos))'
    BY <1>9 DEF S!Units
  <2> QED BY <1>1, <1>2, <2>1, <2>2 DEF SenderReads
<1>11. AirGrows
  <2>1. Len(air) \in Nat
    BY OutFacts DEF SenderInv
  <2> QED BY <1>1, <2>1 DEF AirGrows
<1> QED BY <1>3, <1>6, <1>7, <1>8, <1>10, <1>11 DEF SenderInv

(* A sender that sends has started.                                         *)
LEMMA CallerPlace ==
  ASSUME NEW out, S!SendToRadio(out)
  PROVE  senderPc' # "created"
<1>1. senderPc' = S!Caller(frame', pad')
  BY DEF S!SendToRadio
<1> QED BY <1>1 DEF S!Caller

(* What the thread of the sender does. *)
LEMMA SenderThread ==
  ASSUME SenderInv, S!ThreadStep
  PROVE  /\ SenderInv' /\ AirGrows /\ (Silent \/ NewFrame)
         /\ senderPc # "done" /\ senderPc' # "created"
<1>1. senderPc \in {"created", "read", "frame", "dummy", "done"}
  BY DEF SenderInv, SenderPlace
<1>2. CASE S!Start
  BY <1>2, SenderStarts DEF S!Start
<1>3. CASE S!LeaveLoop
  BY <1>3, SenderLeaves DEF S!LeaveLoop
<1>4. CASE S!ReadPayload
  BY <1>4, SenderReadsPayload DEF S!ReadPayload
<1>5. CASE S!ReadNothing
  BY <1>5, SenderWaits DEF S!ReadNothing
<1>6. CASE S!SendBlock
  <2>1. senderPc = "frame"
    BY <1>6 DEF S!SendBlock
  <2>2. SenderInv' /\ Silent /\ AirGrows
    BY <1>6, SenderSendsBlock
  <2>3. senderPc' # "created"
    <3>1. \E o : S!SendToRadio(o)
      BY <1>6 DEF S!SendBlock, S!Transmit
    <3> QED BY <3>1, CallerPlace
  <2> QED BY <2>1, <2>2, <2>3
<1>7. CASE S!SendDummy
  <2>1. senderPc = "dummy"
    BY <1>7 DEF S!SendDummy
  <2>2. SenderInv' /\ Silent /\ AirGrows
    BY <1>7, SenderSendsDummy
  <2>3. senderPc' # "created"
    <3>1. \E o : S!SendToRadio(o)
      BY <1>7 DEF S!SendDummy, S!Transmit
    <3> QED BY <3>1, CallerPlace
  <2> QED BY <2>1, <2>2, <2>3
<1>8. CASE S!WriteDone \/ S!BurstDone \/ S!ReadStreamStatus("TIMEOUT")
  BY <1>1, <1>8 DEF S!WriteDone, S!BurstDone, S!ReadStreamStatus
<1> QED BY <1>2, <1>3, <1>4, <1>5, <1>6, <1>7, <1>8 DEF S!ThreadStep

(* The rest of what happens to the sender changes nothing of it. *)
LEMMA SenderUntouched ==
  ASSUME SenderInv, UNCHANGED <<senderTransfer, senderPc>>,
         senderStop' = senderStop \/ senderStop' = TRUE
  PROVE  SenderInv' /\ AirGrows /\ Silent
<1>1. UNCHANGED <<avail, sourceClosed, pos, eof, sent, frame, counter, pad, ending,
                  senderLine, senderPhase, air>>
  BY DEF senderTransfer
<1>2. ~S!Stopped' => ~S!Stopped
  BY DEF S!Stopped, senderTransfer
<1>3. SenderTypes' /\ Repeated' /\ SenderPlace'
  BY <1>1 DEF SenderInv, SenderTypes, Repeated, Out, SenderPlace
<1>4. SenderReads'
  BY <1>1, <1>2 DEF SenderInv, SenderReads, S!Units
<1> QED BY <1>1, <1>3, <1>4, StreamUntouched DEF SenderInv

(* The writer of standard input does not touch the stream.                  *)
LEMMA SourceMoves ==
  ASSUME SenderInv, S!Produce \/ S!CloseSource
  PROVE  SenderInv' /\ AirGrows /\ Silent
<1> USE DEF S!Produce, S!CloseSource, S!readVars, S!generatorVars, S!radioVars
<1>1. /\ ~sourceClosed
      /\ avail' = avail \/ (avail' = avail + 1 /\ avail < DataSize)
      /\ UNCHANGED <<senderPc, pos, eof, sent, frame, counter, pad, ending,
                  senderLine, senderPhase, air>>
      /\ S!Stopped' = S!Stopped
  BY DEF S!Stopped
<1>2. SenderTypes'
  <2>1. avail \in Nat /\ avail <= DataSize /\ DataSize \in Nat /\ pos \in Nat /\ pos <= avail
    BY LinkAssumption DEF SenderInv, SenderTypes
  <2>2. avail' \in 0 .. DataSize /\ pos' \in 0 .. avail'
    BY <1>1, <2>1
  <2> QED BY <1>1, <2>2 DEF SenderInv, SenderTypes
<1>3. Repeated' /\ SenderPlace'
  BY <1>1 DEF SenderInv, Repeated, Out, SenderPlace
<1>4. SenderReads'
  BY <1>1 DEF SenderInv, SenderReads, S!Units
<1> QED BY <1>1, <1>2, <1>3, <1>4, StreamUntouched DEF SenderInv
-----------------------------------------------------------------------------
(* What is in the pipe. *)

(* The full buffers are the beginning of what was made.                     *)
LEMMA FlushedFacts ==
  ASSUME NEW a \in Seq(SampleSet)
  PROVE  LET f == SubSeq(a, 1, Len(a) - (Len(a) % StdoutSize))
         IN  /\ f \in Seq(SampleSet) /\ Len(f) \in Nat /\ Len(f) <= Len(a)
             /\ \A x \in 1 .. Len(f) : f[x] = a[x]
             /\ Len(f) = (Len(a) \div StdoutSize) * StdoutSize
<1> DEFINE n == Len(a) - (Len(a) % StdoutSize)
<1>1. Len(a) \in Nat /\ StdoutSize \in Nat \ {0}
  BY LinkAssumption
<1>2. n = (Len(a) \div StdoutSize) * StdoutSize /\ n \in 0 .. Len(a)
  <2> DEFINE q == Len(a) \div StdoutSize
             r == Len(a) % StdoutSize
  <2>1. q \in Nat /\ r \in 0 .. StdoutSize - 1 /\ q * StdoutSize <= Len(a)
        /\ Len(a) - q * StdoutSize = r
    BY <1>1, Division
  <2> HIDE DEF q, r
  <2>2. q * StdoutSize \in Nat
    BY <1>1, <2>1
  <2>3. Len(a) - r = q * StdoutSize /\ q * StdoutSize \in 0 .. Len(a)
    BY <1>1, <2>1, <2>2
  <2> QED BY <2>3 DEF q, r
<1> HIDE DEF n
<1>3. /\ SubSeq(a, 1, n) \in Seq(SampleSet) /\ Len(SubSeq(a, 1, n)) = n
      /\ \A x \in 1 .. n : SubSeq(a, 1, n)[x] = a[x]
  <2>1. \A i \in 1 .. n : a[i] \in SampleSet
    BY <1>1, <1>2, ElementOfSeq
  <2> QED BY <1>1, <1>2, <2>1, SubSeqProperties
<1> DEFINE q == (Len(a) \div StdoutSize) * StdoutSize
<1>4. n \in Nat /\ n <= Len(a) /\ n = q
  BY <1>1, <1>2
<1> HIDE DEF q
<1>5. LET f == SubSeq(a, 1, n)
      IN  /\ f \in Seq(SampleSet) /\ Len(f) \in Nat /\ Len(f) <= Len(a)
          /\ \A x \in 1 .. Len(f) : f[x] = a[x]
          /\ Len(f) = q
  BY <1>3, <1>4
<1> QED BY <1>5, Zenon DEF n, q

(* What is in the pipe is the beginning of what is on the air.              *)
LEMMA WrittenFacts ==
  ASSUME SenderTypes
  PROVE  /\ Written \in Seq(SampleSet) /\ Len(Written) \in Nat /\ Len(Written) <= Len(air)
         /\ \A x \in 1 .. Len(Written) : Written[x] = air[x]
         /\ senderStage # "exited" => Len(Written) = (Len(air) \div StdoutSize) * StdoutSize
         /\ senderStage = "exited" => Written = air
<1>1. air \in Seq(SampleSet) /\ Len(air) \in Nat
  BY DEF SenderTypes
<1> QED BY <1>1, FlushedFacts DEF Written, Flushed

(* Nothing that has been written is taken back. *)
LEMMA WrittenGrows ==
  ASSUME SenderTypes, SenderTypes', AirGrows,
         senderStage = "exited" => senderStage' = "exited" /\ air' = air
  PROVE  Len(Written) <= Len(Written')
<1>1. Len(Written) \in Nat /\ Len(Written) <= Len(air)
      /\ (senderStage # "exited" => Len(Written) = (Len(air) \div StdoutSize) * StdoutSize)
  BY WrittenFacts
<1>2. Written' = IF senderStage' = "exited" THEN air'
                 ELSE SubSeq(air', 1, Len(air') - (Len(air') % StdoutSize))
  BY DEF Written, Flushed
<1>3. /\ senderStage' # "exited" => Len(Written') = (Len(air') \div StdoutSize) * StdoutSize
      /\ senderStage' = "exited" => Len(Written') = Len(air')
  <2>1. air' \in Seq(SampleSet)
    BY DEF SenderTypes
  <2> QED BY <1>2, <2>1, FlushedFacts
<1>4. Len(air) \in Nat /\ Len(air') \in Nat /\ Len(air) <= Len(air') /\ StdoutSize \in Nat \ {0}
  BY LinkAssumption DEF AirGrows, SenderTypes
<1>5. CASE senderStage' = "exited"
  BY <1>1, <1>3, <1>4, <1>5
<1>6. CASE senderStage' # "exited"
  <2> DEFINE p == Len(air) \div StdoutSize
             q == Len(air') \div StdoutSize
  <2>1. p \in Nat /\ q \in Nat /\ p <= q
    BY <1>4, Division, QuotientMonotone
  <2>2. Len(Written) = p * StdoutSize /\ Len(Written') = q * StdoutSize
    BY <1>1, <1>3, <1>6
  <2> HIDE DEF p, q
  <2>3. p * StdoutSize <= q * StdoutSize
    BY <1>4, <2>1
  <2> QED BY <2>2, <2>3
<1> QED BY <1>5, <1>6
-----------------------------------------------------------------------------
(* The steps of the process of the sender, and what happens to it. *)

SenderSide == SenderStep \/ SignalSender \/ Produce

(* What a step on the side of the sender keeps and changes.                 *)
LEMMA SenderKeeps ==
  ASSUME SenderInv, Processes, SenderSide
  PROVE  /\ SenderInv' /\ Processes' /\ AirGrows /\ (Silent \/ NewFrame)
         /\ UNCHANGED receiverVars
         /\ PipeClosed => PipeClosed' /\ UNCHANGED <<air, senderPc, sent>>
         /\ senderStage = "exited" => senderStage' = "exited"
<1> USE DEF PipeClosed, Unread, SenderProgram!Ended, ReceiverProgram!Ended
<1>1. UNCHANGED receiverVars
  BY DEF SenderSide, SenderStep, SignalSender, Produce
<1>2. /\ UNCHANGED <<receiverStage, receiverPc>> /\ Unread' = Unread
  BY <1>1 DEF receiverVars
<1>3. CASE SenderTransfers
  <2>1. /\ senderStage = "transfer" /\ S!ThreadStep
        /\ senderStage' = "transfer" \/ (Unread /\ senderStage' = "killed")
    BY <1>3 DEF SenderTransfers
  <2>2. SenderInv' /\ AirGrows /\ (Silent \/ NewFrame)
    BY <2>1, SenderThread
  <2>3. Processes'
    BY <1>2, <2>1 DEF Processes
  <2> QED BY <1>1, <2>1, <2>2, <2>3
<1>4. CASE SenderRuns
  <2> USE DEF SenderProgram!ParseOptions, SenderProgram!Create, SenderProgram!Return,
              SenderProgram!Exit, SenderProgram!BrokenPipe
  <2>1. UNCHANGED <<senderTransfer, senderPc, senderStop>>
    BY <1>4 DEF SenderRuns
  <2>2. SenderInv' /\ AirGrows /\ Silent
    BY <2>1, SenderUntouched
  <2>3. \/ senderStage = "options" /\ senderStage' \in {"create", "failed"}
        \/ senderStage = "create" /\ senderStage' \in {"transfer", "failed"}
        \/ senderStage = "transfer" /\ senderPc = "done" /\ senderStage' = "pause"
        \/ senderStage = "pause" /\ senderStage' = "exited"
        \/ senderStage = "pause" /\ Unread /\ senderStage' = "killed"
    BY <1>4 DEF SenderRuns
  <2>4. Processes'
    BY <1>2, <2>1, <2>3 DEF Processes
  <2>5. UNCHANGED <<air, sent>>
    BY <2>1 DEF senderTransfer
  <2> QED BY <1>1, <2>1, <2>2, <2>3, <2>4, <2>5
<1>5. CASE SignalSender
  <2> USE DEF SenderProgram!Signal
  <2>1. /\ UNCHANGED <<senderTransfer, senderPc>>
        /\ senderStop' = senderStop \/ senderStop' = TRUE
        /\ \/ senderStage = "options" /\ senderStage' = "killed"
           \/ senderStage' = senderStage
    BY <1>5 DEF SignalSender
  <2>2. SenderInv' /\ AirGrows /\ Silent
    BY <2>1, SenderUntouched
  <2>3. Processes'
    BY <1>2, <2>1 DEF Processes
  <2>4. UNCHANGED <<air, sent>>
    BY <2>1 DEF senderTransfer
  <2> QED BY <1>1, <2>1, <2>2, <2>3, <2>4
<1>6. CASE Produce
  <2>1. ~PipeClosed /\ (S!Produce \/ S!CloseSource) /\ senderStage' = senderStage
        /\ senderPc' = senderPc
    BY <1>6 DEF Produce, S!Produce, S!CloseSource
  <2>2. SenderInv' /\ AirGrows /\ Silent
    BY <2>1, SourceMoves
  <2>3. Processes'
    BY <1>2, <2>1 DEF Processes
  <2> QED BY <1>1, <2>1, <2>2, <2>3
<1> QED BY <1>3, <1>4, <1>5, <1>6 DEF SenderSide, SenderStep

(* A step on the side of the sender leaves the view of the receiver true.   *)
LEMMA ReceiverSees ==
  ASSUME SenderInv, Processes, SenderSide, ReceiverTypes, ReadInv, ResamplerInv, EndInv
  PROVE  ReceiverTypes' /\ ReadInv' /\ ResamplerInv' /\ EndInv'
<1>1. /\ SenderInv' /\ AirGrows
      /\ PipeClosed => PipeClosed' /\ UNCHANGED <<air, senderPc>>
      /\ senderStage = "exited" => senderStage' = "exited"
  BY SenderKeeps
<1>2. UNCHANGED <<receiverPc, rpos, receiverLine, receiverPhase, pending, sync, delivered,
                  receiverDump, cutShort>>
  BY SenderKeeps DEF receiverVars, receiverTransfer
<1>3. ReceiverTypes'
  BY <1>2 DEF ReceiverTypes
<1>4. ReadInv'
  <2>1. Len(Written) <= Len(Written')
    <3>1. senderStage = "exited" => PipeClosed
      BY DEF PipeClosed, SenderProgram!Ended
    <3> QED BY <1>1, <3>1, WrittenGrows DEF SenderInv
  <2>2. Len(Written) \in Nat /\ Len(Written) <= Len(air) /\ Len(air) \in Nat
    BY WrittenFacts, OutFacts DEF SenderInv
  <2>3. Len(Written') \in Nat
    <3>1. (Len(Written) \in Nat)'
      BY <1>1, WrittenFacts, PTL DEF SenderInv
    <3> QED BY <3>1
  <2>4. rpos \in Nat /\ rpos = Len(receiverDump) /\ rpos <= Len(Written)
    BY DEF ReadInv, ReceiverTypes
  <2>5. rpos' <= Len(Written')
    BY <1>2, <2>1, <2>2, <2>3, <2>4
  <2>6. \A x \in 1 .. rpos : x \in 1 .. Len(air)
    BY <2>2, <2>4
  <2> QED BY <1>1, <1>2, <2>4, <2>5, <2>6 DEF ReadInv, AirGrows
<1>5. ResamplerInv'
  BY <1>2 DEF ResamplerInv, Input, EmergedLen, Taken
<1>6. EndInv'
  BY <1>1, <1>2 DEF EndInv
<1> QED BY <1>3, <1>4, <1>5, <1>6
-----------------------------------------------------------------------------
(* The resampler of the receiver. *)

(* The number of samples that the resampler has made of n, by its bounds.   *)
LEMMA GivenFacts ==
  ASSUME NEW n \in Nat
  PROVE  /\ Given(n) \in Nat
         /\ Given(n) * Interpolation <= n * Decimation
         /\ n * Decimation < Given(n) * Interpolation + Interpolation
<1> DEFINE p == Interpolation
           t == 0 + n * Decimation
<1>1. p \in Nat \ {0} /\ t \in Nat /\ t = n * Decimation
  BY Ratio
<1>2. Given(n) = t \div p
  BY DEF Given, R!OutputLen
<1> HIDE DEF t, p
<1>3. /\ t \div p \in Nat /\ (t \div p) * p <= t /\ t < (t \div p) * p + p
  BY <1>1, Division
<1> QED BY <1>1, <1>2, <1>3 DEF p

(* It is determined by its bounds. *)
LEMMA GivenUnique ==
  ASSUME NEW n \in Nat, NEW g \in Nat,
         g * Interpolation <= n * Decimation,
         n * Decimation < g * Interpolation + Interpolation
  PROVE  Given(n) = g
<1> DEFINE p == Interpolation
           t == n * Decimation
           b == g * p
           r == t - b
<1>1. p \in Nat \ {0} /\ t \in Nat /\ b \in Nat
  BY Ratio
<1> HIDE DEF t, b, p
<1>2. r \in 0 .. p - 1 /\ 0 + t = b + r
  BY <1>1 DEF p, t, b
<1> HIDE DEF r
<1>3. (g * p + r) \div p = g
  BY <1>1, <1>2, DivisionUnique
<1>4. (0 + t) \div p = g
  BY <1>2, <1>3 DEF b
<1> QED BY <1>4 DEF Given, R!OutputLen, t, p

(* More comes out of more.                                                  *)
LEMMA GivenMonotone ==
  ASSUME NEW m \in Nat, NEW n \in Nat, m <= n
  PROVE  Given(m) <= Given(n)
<1> DEFINE x == 0 + m * Decimation
           y == 0 + n * Decimation
<1>1. x \in Nat /\ y \in Nat /\ x <= y /\ Interpolation \in Nat \ {0}
  BY Ratio
<1> HIDE DEF x, y
<1>2. x \div Interpolation <= y \div Interpolation
  BY <1>1, QuotientMonotone
<1> QED BY <1>2 DEF Given, R!OutputLen, x, y

(* The sample that sample j is made from, by its bounds.                    *)
LEMMA PickFacts ==
  ASSUME NEW j \in Nat \ {0}
  PROVE  /\ Pick(j) \in Nat \ {0}
         /\ j * Interpolation <= Pick(j) * Decimation
         /\ Pick(j) * Decimation < j * Interpolation + Decimation
<1> DEFINE q == Decimation
           y == j * Interpolation
           t == y - 0 + q - 1
<1>1. q \in Nat \ {0} /\ y \in Nat \ {0}
  <2>1. j * Interpolation >= Interpolation /\ j * Interpolation \in Nat
    BY Ratio
  <2> QED BY <2>1, Ratio
<1>2. Pick(j) = t \div q
  BY DEF Pick, R!Position
<1> HIDE DEF q, y
<1>3. t \in Nat /\ t = y + q - 1
  BY <1>1
<1> HIDE DEF t
<1>4. PICK n \in Nat, r \in 0 .. q - 1 : n = t \div q /\ t = n * q + r
  BY <1>1, <1>3, Dividend
<1>5. y <= n * q /\ n * q < y + q
  <2> DEFINE b == n * q
  <2>1. b \in Nat /\ t = b + r
    BY <1>1, <1>4
  <2> HIDE DEF b
  <2>2. y <= b /\ b < y + q
    BY <1>1, <1>3, <1>4, <2>1
  <2> QED BY <2>2 DEF b
<1>6. n # 0
  BY <1>1, <1>5
<1> QED BY <1>2, <1>4, <1>5, <1>6 DEF q, y

(* A block of n samples after m others.                                     *)
LEMMA GivenBlock ==
  ASSUME NEW m \in Nat, NEW n \in Nat
  PROVE  /\ R!OutputLen(R!NextPhase(0, m), n) \in Nat
         /\ Given(m + n) = Given(m) + R!OutputLen(R!NextPhase(0, m), n)
         /\ R!NextPhase(0, m + n) = R!NextPhase(R!NextPhase(0, m), n)
         /\ \A j \in 1 .. R!OutputLen(R!NextPhase(0, m), n) :
              /\ R!Position(R!NextPhase(0, m), j) \in 1 .. n
              /\ Pick(Given(m) + j) = m + R!Position(R!NextPhase(0, m), j)
<1> DEFINE ph == R!NextPhase(0, m)
           up == Decimation
           down == Interpolation
<1>1. up \in Nat \ {0} /\ down \in Nat \ {0} /\ 0 \in 0 .. down - 1
  BY Ratio
<1>2. Continues(up, down, 0, m, n)
  <2> HIDE DEF up, down
  <2> QED BY <1>1, RatioContinues
<1>3. /\ ph \in 0 .. down - 1
      /\ Given(m + n) = Given(m) + R!OutputLen(ph, n)
      /\ R!NextPhase(0, m + n) = R!NextPhase(ph, n)
      /\ \A j \in 1 .. R!OutputLen(ph, n) : Pick(Given(m) + j) = m + R!Position(ph, j)
  BY <1>2, Zenon DEF Continues, OutputAt, PhaseAt, PositionAt, Given, Pick,
                     R!OutputLen, R!NextPhase, R!Position
<1> HIDE DEF ph
<1>4. R!OutputLen(ph, n) = OutputAt(up, down, ph, n)
  BY DEF R!OutputLen, OutputAt
<1>5. OutputAt(up, down, ph, n) \in Nat
  <2>1. ph + n * up \in Nat
    BY <1>1, <1>3
  <2> QED BY <1>1, <2>1, Division DEF OutputAt
<1>6. ASSUME NEW j \in 1 .. R!OutputLen(ph, n)
      PROVE  R!Position(ph, j) \in 1 .. n
  <2>1. PositionAt(up, down, ph, j) \in 1 .. n
    BY <1>1, <1>3, <1>4, PositionAtInBlock
  <2> QED BY <2>1 DEF R!Position, PositionAt
<1> QED BY <1>3, <1>4, <1>5, <1>6 DEF ph

(* What is given out is made from what has come.                            *)
LEMMA PickBound ==
  ASSUME NEW n \in Nat, NEW j \in 1 .. Given(n)
  PROVE  Pick(j) \in 1 .. n
<1>1. Decimation \in Nat \ {0} /\ Interpolation \in Nat \ {0} /\ 0 \in 0 .. Interpolation - 1
  BY Ratio
<1>2. j \in 1 .. OutputAt(Decimation, Interpolation, 0, n)
  BY DEF Given, R!OutputLen, OutputAt
<1>3. PositionAt(Decimation, Interpolation, 0, j) \in 1 .. n
  BY <1>1, <1>2, PositionAtInBlock
<1> QED BY <1>3 DEF Pick, R!Position, PositionAt

(* The empty filter of either process is zeros.                             *)
LEMMA EmptyLineFacts ==
  /\ R!EmptyLine \in Seq(SampleSet) /\ Len(R!EmptyLine) = ReceiverDelay
  /\ \A m \in 1 .. ReceiverDelay : R!EmptyLine[m] = Zero
  /\ S!EmptyLine \in Seq(SampleSet) /\ Len(S!EmptyLine) = Delay
  /\ \A m \in 1 .. Delay : S!EmptyLine[m] = Zero
<1>1. Zero \in SampleSet /\ Delay \in Nat /\ ReceiverDelay \in Nat
  BY ZeroSample, SamplesAssumption, LinkAssumption
<1>2. R!EmptyLine = [i \in 1 .. ReceiverDelay |-> Zero]
  BY DEF R!EmptyLine, R!Zero, Zero
<1>3. S!EmptyLine = [i \in 1 .. Delay |-> Zero]
  BY DEF S!EmptyLine, S!Zero, Zero
<1> QED BY <1>1, <1>2, <1>3

(* The input of the filter is zeros, then what was read.                    *)
LEMMA InputFacts ==
  ASSUME ReceiverTypes
  PROVE  /\ Input \in Seq(SampleSet) /\ Len(receiverDump) \in Nat
         /\ Len(Input) = ReceiverDelay + Len(receiverDump)
         /\ \A x \in 1 .. ReceiverDelay : Input[x] = Zero
         /\ \A x \in 1 .. Len(receiverDump) : Input[ReceiverDelay + x] = receiverDump[x]
<1>1. PICK empty : empty = R!EmptyLine
  OBVIOUS
<1>2. empty \in Seq(SampleSet) /\ receiverDump \in Seq(SampleSet) /\ Len(empty) = ReceiverDelay
      /\ \A m \in 1 .. ReceiverDelay : empty[m] = Zero
  BY <1>1, EmptyLineFacts DEF ReceiverTypes
<1>3. Joins(Input, empty, receiverDump)
  BY <1>1 DEF Joins, Input
<1>4. /\ Input \in Seq(SampleSet) /\ Len(Input) = Len(empty) + Len(receiverDump)
      /\ \A x \in 1 .. Len(empty) : Input[x] = empty[x]
      /\ \A x \in 1 .. Len(receiverDump) : Input[Len(empty) + x] = receiverDump[x]
  BY ONLY <1>2, <1>3, JoinsFacts
<1> QED BY <1>2, <1>4

(* What the filter lets through, in terms of all that it was given. *)
LEMMA FedFromInput ==
  ASSUME ReceiverTypes, ResamplerInv, receiverPc \notin {"last", "done"},
         NEW in \in Seq(SampleSet), NEW all, Joins(all, Input, in),
         NEW x \in 1 .. ReceiverDelay + Len(in)
  PROVE  Fed(ReceiverDelay, receiverLine, in, x) = all[Len(receiverDump) + x]
<1> DEFINE E == Len(receiverDump)
<1>1. E \in Nat /\ Len(Input) = ReceiverDelay + E /\ Input \in Seq(SampleSet)
  BY InputFacts
<1>2. /\ \A k \in 1 .. Len(Input) : all[k] = Input[k]
      /\ \A k \in 1 .. Len(in) : all[Len(Input) + k] = in[k]
  <2>1. Input \in Seq(SampleSet) /\ in \in Seq(SampleSet) /\ Joins(all, Input, in)
    BY <1>1
  <2> QED BY ONLY <2>1, JoinsFacts
<1>3. ReceiverDelay \in Nat /\ Len(in) \in Nat
  BY LinkAssumption
<1>4. CASE x <= ReceiverDelay
  <2>1. x \in 1 .. ReceiverDelay /\ E + x \in 1 .. ReceiverDelay + E
    BY <1>1, <1>3, <1>4
  <2>2. receiverLine[x] = Input[E + x]
    BY <2>1 DEF ResamplerInv
  <2> QED BY <1>1, <1>2, <1>4, <2>1, <2>2 DEF Fed
<1>5. CASE ~(x <= ReceiverDelay)
  <2>1. x - ReceiverDelay \in 1 .. Len(in) /\ (ReceiverDelay + E) + (x - ReceiverDelay) = E + x
    BY <1>1, <1>3, <1>5
  <2> QED BY <1>1, <1>2, <1>5, <2>1 DEF Fed
<1> QED BY <1>4, <1>5

(* A call of the resampler with in, after E samples: all is what it was     *)
(* given from the start, g what it gave out, total what has come out of the *)
(* filter after the call.                                                   *)
Takes(in, all, E, g, total) ==
  /\ receiverPc \in {"read", "flush"} /\ in \in Seq(SampleSet) /\ R!Execute(in)
  /\ Joins(all, Input, in)
  /\ E \in Nat /\ E = Len(receiverDump) /\ g \in Nat /\ g = Given(E)
  /\ total \in Nat /\ total = E + Len(in)

(* The resampler takes samples: what waits and what stays, read off the input. *)
LEMMA ResamplerTakes ==
  ASSUME ReceiverTypes, ResamplerInv, NEW in, NEW all, NEW E, NEW g, NEW total,
         Takes(in, all, E, g, total)
  PROVE  /\ receiverLine' \in Seq(SampleSet) /\ Len(receiverLine') = ReceiverDelay
         /\ \A m \in 1 .. ReceiverDelay : receiverLine'[m] = all[total + m]
         /\ pending' \in Seq(SampleSet)
         /\ g + Len(pending') = Given(total)
         /\ \A j \in 1 .. Len(pending') : pending'[j] = all[Pick(g + j)]
         /\ receiverPhase' = R!NextPhase(0, total)
<1> DEFINE n == Len(in)
           e == SubSeq(receiverLine \o in, 1, Len(in))
<1>1. PICK ph, len : ph = receiverPhase /\ len = R!OutputLen(ph, n)
  OBVIOUS
<1>2. /\ n \in Nat /\ ReceiverDelay \in Nat /\ in \in Seq(SampleSet) /\ Joins(all, Input, in)
      /\ receiverLine \in Seq(SampleSet) /\ Len(receiverLine) = ReceiverDelay
      /\ E \in Nat /\ E = Len(receiverDump) /\ g \in Nat /\ g = Given(E) /\ total = E + n
      /\ total \in Nat /\ ph = R!NextPhase(0, E) /\ receiverPc \notin {"last", "done"}
  BY <1>1, LinkAssumption DEF ReceiverTypes, ResamplerInv, EmergedLen, Takes
<1>3. /\ len \in Nat /\ Given(total) = g + len /\ R!NextPhase(0, total) = R!NextPhase(ph, n)
      /\ \A j \in 1 .. len : R!Position(ph, j) \in 1 .. n /\ Pick(g + j) = E + R!Position(ph, j)
  <2> HIDE DEF n
  <2>1. E \in Nat /\ n \in Nat
    BY <1>2
  <2>2. /\ R!OutputLen(R!NextPhase(0, E), n) \in Nat
        /\ Given(E + n) = Given(E) + R!OutputLen(R!NextPhase(0, E), n)
        /\ R!NextPhase(0, E + n) = R!NextPhase(R!NextPhase(0, E), n)
        /\ \A j \in 1 .. R!OutputLen(R!NextPhase(0, E), n) :
             /\ R!Position(R!NextPhase(0, E), j) \in 1 .. n
             /\ Pick(Given(E) + j) = E + R!Position(R!NextPhase(0, E), j)
    BY ONLY <2>1, GivenBlock
  <2> QED BY <1>1, <1>2, <2>2
<1>4. /\ receiverLine' = SubSeq(receiverLine \o in, Len(in) + 1, Len(in) + ReceiverDelay)
      /\ receiverPhase' = R!NextPhase(ph, n)
      /\ pending' = R!Resample(ph, e)
  BY <1>1 DEF R!Execute, R!Staying, R!Emerging, Takes
<1>5. /\ e \in Seq(SampleSet) /\ Len(e) = n
      /\ receiverLine' \in Seq(SampleSet) /\ Len(receiverLine') = ReceiverDelay
      /\ \A m \in 1 .. n : e[m] = Fed(ReceiverDelay, receiverLine, in, m)
      /\ \A m \in 1 .. ReceiverDelay :
           receiverLine'[m] = Fed(ReceiverDelay, receiverLine, in, n + m)
  <2>1. Filters(ReceiverDelay, receiverLine, in, e, receiverLine')
    BY <1>2, <1>4 DEF Filters
  <2> HIDE DEF e
  <2> QED BY ONLY <2>1, FilterPasses
<1> HIDE DEF e
<1>6. /\ \A m \in 1 .. n : e[m] = all[E + m]
      /\ \A m \in 1 .. ReceiverDelay : receiverLine'[m] = all[total + m]
  <2>1. \A x \in 1 .. ReceiverDelay + n : Fed(ReceiverDelay, receiverLine, in, x) = all[E + x]
    BY <1>2, FedFromInput
  <2>2. \A m \in 1 .. n : m \in 1 .. ReceiverDelay + n
    BY <1>2
  <2>3. \A m \in 1 .. ReceiverDelay :
          n + m \in 1 .. ReceiverDelay + n /\ E + (n + m) = total + m
    BY <1>2
  <2> HIDE DEF n
  <2> QED BY <1>5, <2>1, <2>2, <2>3
<1> HIDE DEF n
<1>7. pending' = [j \in 1 .. len |-> e[R!Position(ph, j)]]
  BY <1>1, <1>4, <1>5 DEF R!Resample
<1>8. \A j \in 1 .. len : e[R!Position(ph, j)] \in SampleSet
                          /\ e[R!Position(ph, j)] = all[Pick(g + j)]
  <2>1. \A m \in 1 .. n : e[m] \in SampleSet
    BY <1>5, ElementOfSeq
  <2> QED BY <1>3, <1>6, <2>1
<1>9. pending' \in Seq(SampleSet) /\ Len(pending') = len
      /\ \A j \in 1 .. len : pending'[j] = all[Pick(g + j)]
  BY <1>3, <1>7, <1>8
<1> QED BY <1>3, <1>4, <1>5, <1>6, <1>9
-----------------------------------------------------------------------------
(* The steps of the receiver. *)

ReceiverInv == ReceiverTypes /\ ReadInv /\ ResamplerInv /\ EndInv

(* What the synchronizer has made of the samples it has taken.             *)
SameView ==
  /\ Taken' = Taken /\ UNCHANGED <<sync, delivered>>
  /\ Following' => Following

(* What a read may return is in the pipe; nothing is the end of it.         *)
LEMMA Readable ==
  ASSUME SenderInv, ReceiverInv, NEW n \in R!Readable
  PROVE  /\ n \in Nat /\ rpos + n <= Len(Written)
         /\ n = 0 => PipeClosed /\ rpos = Len(Written)
<1> DEFINE left == Len(Written) - rpos
           there == R!Least(R!SamplesSize, left)
<1>1. rpos \in Nat /\ Len(Written) \in Nat /\ left \in Nat /\ rpos + left = Len(Written)
  <2>1. rpos \in Nat /\ Len(Written) \in Nat /\ rpos <= Len(Written)
    BY WrittenFacts DEF SenderInv, ReceiverInv, ReadInv, ReceiverTypes
  <2> QED BY <2>1
<1>2. R!SamplesSize \in Nat \ {0}
  <2>1. BlockSize \in Nat \ {0} /\ Interpolation \in Nat \ {0}
        /\ Decimation \in Nat \ {0} /\ Decimation <= Interpolation
    BY LinkAssumption, Ratio
  <2> DEFINE t == BlockSize * Interpolation
  <2>2. t \in Nat /\ Decimation <= t
    <3>1. BlockSize * Interpolation >= Interpolation /\ BlockSize * Interpolation \in Nat
      BY <2>1
    <3> QED BY <2>1, <3>1
  <2>3. R!SamplesSize = t \div Decimation
    BY DEF R!SamplesSize
  <2> HIDE DEF t
  <2>4. PICK k \in Nat, r \in 0 .. Decimation - 1 : k = t \div Decimation /\ t = k * Decimation + r
    BY <2>1, <2>2, Dividend
  <2>5. k # 0
    <3> SUFFICES ASSUME k = 0 PROVE FALSE
      OBVIOUS
    <3>1. k * Decimation = 0
      BY <2>1
    <3> QED BY <2>1, <2>2, <2>4, <3>1
  <2> QED BY <2>3, <2>4, <2>5
<1>3. n = there /\ (there = R!SamplesSize \/ PipeClosed)
  BY DEF R!Readable
<1> HIDE DEF left
<1>4. there \in Nat /\ there <= left /\ (there = 0 => there # R!SamplesSize /\ left = 0)
  BY <1>1, <1>2 DEF R!Least
<1> HIDE DEF there
<1>5. n \in Nat /\ rpos + n <= Len(Written)
  BY <1>1, <1>3, <1>4
<1>6. n = 0 => PipeClosed /\ rpos = Len(Written)
  BY <1>1, <1>3, <1>4
<1> QED BY <1>5, <1>6

(* What was taken and what waits is what came out.                          *)
LEMMA TakenFacts ==
  ASSUME ReceiverInv
  PROVE  /\ EmergedLen \in Nat /\ Given(EmergedLen) \in Nat
         /\ Len(pending) \in Nat /\ Taken \in Nat
         /\ Taken + Len(pending) = Given(EmergedLen)
<1>1. ReceiverDelay \in Nat
  BY LinkAssumption
<1>2. Len(receiverDump) \in Nat /\ Len(pending) \in Nat
  BY DEF ReceiverInv, ReceiverTypes
<1>3. EmergedLen \in Nat
  BY <1>1, <1>2 DEF EmergedLen
<1>4. Given(EmergedLen) \in Nat
  BY <1>3, GivenFacts
<1>5. Len(pending) <= Given(EmergedLen)
  BY DEF ReceiverInv, ResamplerInv
<1> QED BY <1>2, <1>3, <1>4, <1>5 DEF Taken

(* A block is read and resampled; the synchronizer sees nothing of it yet.  *)
LEMMA ReceiverReads ==
  ASSUME SenderInv, ReceiverInv, UNCHANGED <<senderVars, cutShort>>,
         NEW n \in R!Readable, R!ReceiveBlock(n)
  PROVE  ReceiverInv' /\ SameView
<1> DEFINE in == SubSeq(Written, rpos + 1, rpos + n)
<1>1. /\ receiverPc = "read" /\ receiverPc' = "feed"
      /\ receiverDump' = receiverDump \o in /\ R!Execute(in) /\ rpos' = rpos + n
      /\ UNCHANGED <<sync, delivered>>
  BY DEF R!ReceiveBlock, R!syncVars
<1>2. UNCHANGED <<air, Written>>
  BY DEF senderVars, senderTransfer, Written, Flushed
<1>3. /\ rpos \in Nat /\ n \in Nat /\ rpos + n <= Len(Written)
      /\ rpos = Len(receiverDump) /\ receiverDump \in Seq(SampleSet)
      /\ pending = <<>> /\ \A x \in 1 .. rpos : receiverDump[x] = air[x]
  BY <1>1, Readable DEF ReceiverInv, ReadInv, ReceiverTypes, ResamplerInv
<1>4. /\ in \in Seq(SampleSet) /\ Len(in) = n
      /\ \A k \in 1 .. n : in[k] = air[rpos + k]
  <2>1. /\ Written \in Seq(SampleSet) /\ Len(Written) \in Nat
        /\ \A x \in 1 .. Len(Written) : Written[x] = air[x]
    BY WrittenFacts DEF SenderInv
  <2>2. \A i \in rpos + 1 .. rpos + n : i \in 1 .. Len(Written) /\ Written[i] \in SampleSet
    <3>1. \A i \in 1 .. Len(Written) : Written[i] \in SampleSet
      BY <2>1, ElementOfSeq
    <3>2. \A i \in rpos + 1 .. rpos + n : i \in 1 .. Len(Written)
      BY <1>3, <2>1
    <3> QED BY <3>1, <3>2
  <2>3. \A i \in rpos + 1 .. rpos + n : Written[i] \in SampleSet
    BY <2>2
  <2>4. rpos + 1 \in Int /\ rpos + n \in Int
    BY <1>3
  <2>5. /\ in \in Seq(SampleSet)
        /\ Len(in) = IF rpos + 1 <= rpos + n THEN (rpos + n) - (rpos + 1) + 1 ELSE 0
        /\ \A i \in 1 .. (rpos + n) - (rpos + 1) + 1 : in[i] = Written[(rpos + 1) + i - 1]
    BY <2>3, <2>4, SubSeqProperties
  <2>6. Len(in) = n /\ (rpos + n) - (rpos + 1) + 1 = n
    BY <1>3, <2>5
  <2>7. \A k \in 1 .. n : (rpos + 1) + k - 1 = rpos + k /\ rpos + k \in rpos + 1 .. rpos + n
    BY <1>3
  <2> HIDE DEF in
  <2>8. \A k \in 1 .. n : in[k] = air[rpos + k]
    <3> SUFFICES ASSUME NEW k \in 1 .. n PROVE in[k] = air[rpos + k]
      OBVIOUS
    <3>1. in[k] = Written[rpos + k]
      BY <2>5, <2>6, <2>7
    <3>2. rpos + k \in 1 .. Len(Written)
      BY <2>2, <2>7
    <3> QED BY <2>1, <3>1, <3>2
  <2> QED BY <2>5, <2>6, <2>8
<1> HIDE DEF in
<1>5. /\ receiverDump' \in Seq(SampleSet) /\ Len(receiverDump') = rpos + n
      /\ \A x \in 1 .. rpos : receiverDump'[x] = receiverDump[x]
      /\ \A k \in 1 .. n : receiverDump'[rpos + k] = in[k]
  <2>1. Joins(receiverDump', receiverDump, in)
    BY <1>1 DEF Joins
  <2>2. /\ receiverDump' \in Seq(SampleSet) /\ Len(receiverDump') = Len(receiverDump) + Len(in)
        /\ \A x \in 1 .. Len(receiverDump) : receiverDump'[x] = receiverDump[x]
        /\ \A k \in 1 .. Len(in) : receiverDump'[Len(receiverDump) + k] = in[k]
    <3>1. receiverDump \in Seq(SampleSet) /\ in \in Seq(SampleSet)
      BY <1>3, <1>4
    <3> QED BY ONLY <2>1, <3>1, JoinsFacts
  <2> QED BY <1>3, <1>4, <2>2
<1>6. Joins(Input', Input, in)
  <2> PICK empty : empty = R!EmptyLine
    OBVIOUS
  <2>1. empty \in Seq(SampleSet) /\ receiverDump \in Seq(SampleSet) /\ in \in Seq(SampleSet)
    BY <1>3, <1>4, EmptyLineFacts
  <2>2. Joins(Input, empty, receiverDump) /\ Joins(receiverDump', receiverDump, in)
    BY <1>1 DEF Joins, Input
  <2>3. Joins(Input', empty, receiverDump')
    BY DEF Joins, Input, R!EmptyLine
  <2> QED BY <2>1, <2>2, <2>3, JoinsAssociative
<1>7. PICK all : all = Input'
  OBVIOUS
<1>8. PICK E, total, q : E = Len(receiverDump) /\ total = rpos + n /\ q = Given(E)
  OBVIOUS
<1>9. /\ E \in Nat /\ total \in Nat /\ q \in Nat /\ total = E + Len(in) /\ Taken = q
      /\ EmergedLen' = total
  <2>1. E \in Nat
    BY <1>3, <1>8
  <2>2. q \in Nat
    BY <1>8, <2>1, GivenFacts
  <2>3. Taken = q
    <3>1. EmergedLen = E /\ Len(pending) = 0
      BY <1>1, <1>3, <1>8 DEF EmergedLen
    <3> QED BY <1>8, <2>2, <3>1 DEF Taken
  <2> QED BY <1>1, <1>3, <1>4, <1>5, <1>8, <2>1, <2>2, <2>3 DEF EmergedLen
<1>10. /\ receiverLine' \in Seq(SampleSet) /\ Len(receiverLine') = ReceiverDelay
       /\ \A m \in 1 .. ReceiverDelay : receiverLine'[m] = all[total + m]
       /\ pending' \in Seq(SampleSet)
       /\ q + Len(pending') = Given(total)
       /\ \A j \in 1 .. Len(pending') : pending'[j] = all[Pick(q + j)]
       /\ receiverPhase' = R!NextPhase(0, total)
  <2>1. Takes(in, all, E, q, total)
    BY <1>1, <1>4, <1>6, <1>7, <1>8, <1>9 DEF Takes
  <2>2. ReceiverTypes /\ ResamplerInv
    BY DEF ReceiverInv
  <2> QED BY ONLY <2>1, <2>2, ResamplerTakes
<1>11. ReceiverTypes'
  BY <1>1, <1>5, <1>10 DEF ReceiverInv, ReceiverTypes
<1>12. ReadInv'
  <2>1. ASSUME NEW x \in 1 .. rpos + n PROVE receiverDump'[x] = air[x]
    <3>1. CASE x <= rpos
      <4>1. x \in 1 .. rpos
        BY <1>3, <3>1
      <4> QED BY <1>3, <1>5, <4>1
    <3>2. CASE ~(x <= rpos)
      <4>1. x - rpos \in 1 .. n /\ rpos + (x - rpos) = x
        BY <1>3, <3>2
      <4> QED BY <1>4, <1>5, <4>1
    <3> QED BY <3>1, <3>2
  <2> QED BY <1>1, <1>2, <1>3, <1>5, <2>1 DEF ReadInv
<1>13. Len(pending') \in Nat /\ Taken' = q /\ Given(total) = q + Len(pending')
  <2>1. Len(pending') \in Nat
    BY <1>10
  <2>2. Taken' = Given(EmergedLen') - Len(pending')
    BY DEF Taken
  <2> QED BY <1>9, <1>10, <2>1, <2>2
<1>14. ResamplerInv'
  <2>1. Len(receiverDump') = total
    BY <1>5, <1>8
  <2>2. Len(pending') <= Given(EmergedLen')
    BY <1>9, <1>13
  <2> QED BY <1>1, <1>7, <1>9, <1>10, <1>13, <2>1, <2>2 DEF ResamplerInv
<1>15. EndInv'
  BY <1>1 DEF EndInv
<1>16. SameView
  BY <1>1, <1>9, <1>13 DEF SameView, Following
<1> QED BY <1>11, <1>12, <1>14, <1>15, <1>16 DEF ReceiverInv

(* The flush of the filter; the synchronizer sees nothing of it yet.        *)
LEMMA ReceiverFlushes ==
  ASSUME SenderInv, ReceiverInv, UNCHANGED <<senderVars, cutShort>>, R!Flush
  PROVE  ReceiverInv' /\ SameView
<1>1. /\ receiverPc = "flush" /\ receiverPc' = "last" /\ R!Execute(R!EmptyLine)
      /\ UNCHANGED <<rpos, receiverDump, sync, delivered>>
  BY EmptyLineFacts DEF R!Flush, R!syncVars, R!radioVars
<1>2. UNCHANGED <<air, Written, PipeClosed, senderPc>>
  BY DEF senderVars, senderTransfer, Written, Flushed, PipeClosed, SenderProgram!Ended
<1>3. Input' = Input
  BY <1>1 DEF Input, R!EmptyLine
<1>4. PICK E, total, q, all : /\ E = Len(receiverDump) /\ total = ReceiverDelay + E /\ q = Given(E)
                              /\ all = Input \o R!EmptyLine
  OBVIOUS
<1>5. /\ E \in Nat /\ total \in Nat /\ q \in Nat /\ total = E + Len(R!EmptyLine) /\ Taken = q
      /\ EmergedLen' = total
  <2>1. E \in Nat /\ ReceiverDelay \in Nat
    BY <1>4, LinkAssumption DEF ReceiverInv, ReceiverTypes
  <2>2. q \in Nat
    BY <1>4, <2>1, GivenFacts
  <2>3. Taken = q
    <3>1. EmergedLen = E /\ Len(pending) = 0
      BY <1>1, <1>4 DEF EmergedLen, ReceiverInv, ResamplerInv
    <3> QED BY <1>4, <2>2, <3>1 DEF Taken
  <2> QED BY <1>1, <1>4, <2>1, <2>2, <2>3, EmptyLineFacts DEF EmergedLen
<1>6. /\ receiverLine' \in Seq(SampleSet) /\ Len(receiverLine') = ReceiverDelay
      /\ pending' \in Seq(SampleSet)
      /\ q + Len(pending') = Given(total)
      /\ \A j \in 1 .. Len(pending') : pending'[j] = all[Pick(q + j)]
      /\ receiverPhase' = R!NextPhase(0, total)
  <2>1. PICK in : in = R!EmptyLine
    OBVIOUS
  <2>2. Takes(in, all, E, q, total)
    BY <1>1, <1>4, <1>5, <2>1, EmptyLineFacts DEF Joins, Takes
  <2>3. ReceiverTypes /\ ResamplerInv
    BY DEF ReceiverInv
  <2> QED BY ONLY <2>2, <2>3, ResamplerTakes
<1>7. Len(pending') \in Nat /\ Taken' = q /\ Given(total) = q + Len(pending')
  <2>1. Len(pending') \in Nat
    BY <1>6
  <2>2. Taken' = Given(EmergedLen') - Len(pending')
    BY DEF Taken
  <2> QED BY <1>5, <1>6, <2>1, <2>2
<1>8. ASSUME NEW j \in 1 .. Len(pending')
      PROVE  pending'[j] = Input[Pick(q + j)]
  <2>1. q + j \in 1 .. Given(total) /\ total \in Nat
    <3>1. Given(total) \in Nat
      BY <1>5, GivenFacts
    <3> QED BY <1>5, <1>7, <3>1
  <2>3. Pick(q + j) \in 1 .. total
    BY <2>1, PickBound
  <2>4. \A x \in 1 .. total : all[x] = Input[x]
    <3> PICK empty : empty = R!EmptyLine
      OBVIOUS
    <3>1. Input \in Seq(SampleSet) /\ Len(Input) = total /\ empty \in Seq(SampleSet)
      BY <1>4, InputFacts, EmptyLineFacts DEF ReceiverInv
    <3>2. Joins(all, Input, empty)
      BY <1>4 DEF Joins
    <3>3. \A x \in 1 .. Len(Input) : all[x] = Input[x]
      BY ONLY <3>1, <3>2, JoinsFacts
    <3> QED BY <3>1, <3>3
  <2> QED BY <1>6, <2>3, <2>4
<1>9. ReceiverTypes'
  BY <1>1, <1>6 DEF ReceiverInv, ReceiverTypes
<1>10. ReadInv' /\ EndInv'
  BY <1>1, <1>2 DEF ReceiverInv, ReadInv, EndInv
<1>11. ResamplerInv'
  <2>1. Len(pending') <= Given(EmergedLen')
    BY <1>5, <1>7
  <2> QED BY <1>1, <1>3, <1>5, <1>6, <1>7, <1>8, <2>1 DEF ResamplerInv
<1>12. SameView
  BY <1>1, <1>5, <1>7 DEF SameView, Following
<1> QED BY <1>9, <1>10, <1>11, <1>12 DEF ReceiverInv

(* A receiver that is not stopped only ends after the sender. *)
LEMMA PipeIsEmpty ==
  ASSUME SenderInv, Processes, ReceiverInv, receiverStage = "transfer",
         PipeClosed, rpos = Len(Written)
  PROVE  senderPc \in {"created", "done"} /\ rpos = Len(air)
<1>1. ~Unread /\ senderStage \in {"exited", "failed", "killed"}
  BY DEF Unread, ReceiverProgram!Ended, PipeClosed, SenderProgram!Ended
<1>2. CASE senderStage = "exited"
  <2>1. senderPc = "done" /\ Written = air
    BY <1>2, WrittenFacts DEF Processes, SenderInv
  <2> QED BY <2>1
<1>3. CASE senderStage # "exited"
  <2>1. senderPc = "created"
    BY <1>1, <1>3 DEF Processes
  <2>2. air = <<>> /\ Len(air) = 0
    BY <2>1 DEF SenderInv, SenderPlace
  <2>3. Len(Written) \in Nat /\ Len(Written) <= Len(air)
    BY WrittenFacts DEF SenderInv
  <2>4. Len(Written) = Len(air)
    BY <2>2, <2>3
  <2> QED BY <2>1, <2>4
<1> QED BY <1>2, <1>3

(* The steps that only move the receiver through its loop.                  *)
LEMMA ReceiverTurns ==
  ASSUME SenderInv, Processes, ReceiverInv, receiverStage = "transfer", UNCHANGED senderVars,
         cutShort' = (cutShort \/ (receiverPc = "loop" /\ R!Stopped)),
         R!Start \/ R!TestStop \/ R!EndOfInput \/ R!BlockDone \/ R!Return
  PROVE  ReceiverInv' /\ SameView
<1> USE DEF R!Start, R!TestStop, R!EndOfInput, R!BlockDone, R!Return,
            R!radioVars, R!resamplerVars, R!syncVars
<1>1. UNCHANGED <<rpos, receiverLine, receiverPhase, pending, sync, delivered, receiverDump>>
  OBVIOUS
<1>2. UNCHANGED <<air, Written, PipeClosed, senderPc>>
  BY DEF senderVars, senderTransfer, Written, Flushed, PipeClosed, SenderProgram!Ended
<1>3. Input' = Input
  BY <1>1 DEF Input, R!EmptyLine
<1>4. cutShort \in BOOLEAN /\ cutShort' \in BOOLEAN /\ (cutShort => cutShort')
  BY DEF ReceiverInv, ReceiverTypes
<1>5. \/ /\ receiverPc \in {"created", "loop", "read", "feed"}
         /\ receiverPc' \in {"loop", "read", "flush"}
         /\ pending = <<>>
      \/ receiverPc = "last" /\ receiverPc' = "done" /\ pending = <<>> /\ (cutShort' <=> cutShort)
  <2>1. CASE R!Return
    BY <1>4, <2>1
  <2>2. CASE R!Start \/ R!TestStop \/ R!EndOfInput \/ R!BlockDone
    BY <2>2 DEF ReceiverInv, ResamplerInv
  <2> QED BY <2>1, <2>2
<1>6. EmergedLen' = EmergedLen
  BY <1>1, <1>5 DEF EmergedLen
<1>7. Taken' = Taken
  BY <1>1, <1>6 DEF Taken
<1>8. ReceiverTypes' /\ ReadInv'
  BY <1>1, <1>2, <1>4, <1>5 DEF ReceiverInv, ReceiverTypes, ReadInv
<1>9. ResamplerInv'
  BY <1>1, <1>3, <1>5, <1>6, <1>7 DEF ReceiverInv, ResamplerInv
<1>10. EndInv'
  <2>1. CASE R!EndOfInput
    <3>1. 0 \in R!Readable
      BY <2>1
    <3>2. PipeClosed /\ rpos = Len(Written)
      BY <3>1, Readable
    <3>3. senderPc \in {"created", "done"} /\ rpos = Len(air)
      BY <3>2, PipeIsEmpty
    <3> QED BY <1>1, <1>2, <3>2, <3>3 DEF EndInv
  <2>2. CASE R!TestStop
    BY <2>2 DEF EndInv
  <2>3. CASE R!Return
    BY <1>1, <1>2, <1>5, <2>3 DEF EndInv, ReceiverInv
  <2>4. CASE R!Start \/ R!BlockDone
    BY <2>4 DEF EndInv
  <2> QED BY <2>1, <2>2, <2>3, <2>4
<1>11. SameView
  BY <1>1, <1>5, <1>7 DEF SameView, Following
<1> QED BY <1>8, <1>9, <1>10, <1>11 DEF ReceiverInv

(* The synchronizer takes a sample. *)
LEMMA ReceiverFeeds ==
  ASSUME SenderInv, ReceiverInv, UNCHANGED <<senderVars, cutShort>>, R!Feed
  PROVE  /\ ReceiverInv' /\ Taken' = Taken + 1 /\ Following
         /\ R!Take(Input[Pick(Taken + 1)])
         /\ Taken \in Nat /\ Pick(Taken + 1) <= EmergedLen
         /\ Following' \/ (receiverPc' = "last" /\ pending' = <<>> /\ cutShort')
<1> USE DEF R!Feed, R!radioVars, R!resamplerVars
<1>1. /\ receiverPc \in {"feed", "last"} /\ receiverPc' = receiverPc
      /\ pending # <<>> /\ pending' = Tail(pending) /\ R!Take(pending[1])
      /\ UNCHANGED <<rpos, receiverLine, receiverPhase, receiverDump>>
  OBVIOUS
<1>2. UNCHANGED <<air, Written, PipeClosed, senderPc>>
  BY DEF senderVars, senderTransfer, Written, Flushed, PipeClosed, SenderProgram!Ended
<1>3. Input' = Input
  BY <1>1 DEF Input, R!EmptyLine
<1>4. /\ EmergedLen \in Nat /\ Given(EmergedLen) \in Nat /\ Len(pending) \in Nat /\ Taken \in Nat
      /\ Taken + Len(pending) = Given(EmergedLen) /\ EmergedLen' = EmergedLen
  BY <1>1, TakenFacts DEF EmergedLen
<1>5. /\ pending' \in Seq(SampleSet) /\ Len(pending') = Len(pending) - 1 /\ Len(pending) >= 1
      /\ \A j \in 1 .. Len(pending) - 1 : pending'[j] = pending[j + 1]
  <2>1. pending \in Seq(SampleSet) /\ pending # <<>>
    BY <1>1 DEF ReceiverInv, ReceiverTypes
  <2> QED BY <1>1, <2>1
<1>6. Taken' = Taken + 1 /\ Len(pending') <= Given(EmergedLen')
  <2>1. Taken' = Given(EmergedLen') - Len(pending')
    BY DEF Taken
  <2> QED BY <1>4, <1>5, <2>1
<1>7. \A j \in 1 .. Len(pending) : pending[j] = Input[Pick(Taken + j)]
  BY DEF ReceiverInv, ResamplerInv
<1>8. \A j \in 1 .. Len(pending') : pending'[j] = Input'[Pick(Taken' + j)]
  <2> SUFFICES ASSUME NEW j \in 1 .. Len(pending')
               PROVE  pending'[j] = Input'[Pick(Taken' + j)]
    OBVIOUS
  <2>1. j \in 1 .. Len(pending) - 1 /\ j + 1 \in 1 .. Len(pending)
        /\ (Taken + 1) + j = Taken + (j + 1)
    BY <1>4, <1>5
  <2> QED BY <1>3, <1>5, <1>6, <1>7, <2>1
<1>9. ReceiverTypes' /\ ReadInv' /\ EndInv'
  BY <1>1, <1>2, <1>5 DEF ReceiverInv, ReceiverTypes, ReadInv, EndInv
<1>10. ResamplerInv'
  BY <1>1, <1>3, <1>4, <1>6, <1>8 DEF ReceiverInv, ResamplerInv
<1>11. Pick(Taken + 1) <= EmergedLen
  <2>1. Taken + 1 \in 1 .. Given(EmergedLen)
    BY <1>4, <1>5
  <2>2. Pick(Taken + 1) \in 1 .. EmergedLen
    BY <1>4, <2>1, PickBound
  <2> QED BY <1>4, <2>2
<1>12. R!Take(Input[Pick(Taken + 1)])
  <2>1. pending[1] = Input[Pick(Taken + 1)]
    BY <1>5, <1>7
  <2> QED BY <1>1, <2>1
<1>13. Following /\ (Following' \/ (receiverPc' = "last" /\ pending' = <<>> /\ cutShort'))
  BY <1>1 DEF Following
<1> QED BY <1>4, <1>6, <1>9, <1>10, <1>11, <1>12, <1>13 DEF ReceiverInv
-----------------------------------------------------------------------------
(* What the synchronizer is given is the stream, after Lag zeros. *)

(* The delay of the receiver is its lag and a rest below a sample, to which *)
(* no sample of the radio that the resampler may choose adds up.            *)
LEMMA LagFacts ==
  /\ ReceiverDelay \in Nat \ {0} /\ Lag \in Nat
  /\ \E r \in 0 .. Interpolation - 1 :
       ReceiverDelay * Decimation = Lag * Interpolation + r /\ Decimation - 1 <= r
<1>1. ReceiverDelay \in Nat \ {0} /\ Interpolation \in Nat \ {0} /\ Decimation \in Nat \ {0}
  BY Ratio, LinkAssumption
<1> DEFINE t == ReceiverDelay * Decimation
           u == 0 + t
<1>2. t \in Nat /\ t % Interpolation >= Decimation - 1 /\ u = t
  BY <1>1, LinkAssumption
<1> HIDE DEF t
<1>3. PICK k \in Nat, r \in 0 .. Interpolation - 1 :
        k = t \div Interpolation /\ r = t % Interpolation /\ t = k * Interpolation + r
  BY <1>1, <1>2, Dividend
<1>4. Lag = u \div Interpolation
  BY DEF Lag, Given, R!OutputLen, t
<1> HIDE DEF u
<1>5. Lag = k
  BY <1>2, <1>3, <1>4
<1> QED BY <1>1, <1>2, <1>3, <1>5 DEF t

(* The lag is a number of samples.                                          *)
LEMMA LagType == Lag \in Nat
  BY LagFacts

(* No more comes out than was read, and the delay at the end.               *)
LEMMA EmergedFacts ==
  ASSUME SenderInv, ReceiverInv
  PROVE  /\ EmergedLen <= ReceiverDelay + rpos /\ rpos \in Nat /\ rpos <= Len(air)
         /\ rpos = Len(receiverDump)
         /\ receiverPc \in {"last", "done"} => EmergedLen = ReceiverDelay + rpos
<1>1. ReceiverDelay \in Nat
  BY LinkAssumption
<1>2. rpos = Len(receiverDump) /\ rpos \in Nat /\ rpos <= Len(Written)
  BY DEF ReceiverInv, ReadInv, ReceiverTypes
<1>3. Len(Written) \in Nat /\ Len(Written) <= Len(air) /\ Len(air) \in Nat
  BY WrittenFacts, OutFacts DEF SenderInv
<1>4. rpos <= Len(air)
  BY <1>2, <1>3
<1> QED BY <1>1, <1>2, <1>4 DEF EmergedLen

(* The first samples that the resampler chooses are zeros, and the others   *)
(* are in the cells of the stream, one after the other.                     *)
LEMMA PickCell ==
  ASSUME NEW j \in Nat \ {0}
  PROVE  /\ Pick(j) \in Nat \ {0}
         /\ j <= Lag => Pick(j) <= ReceiverDelay
         /\ ~(j <= Lag) => /\ Pick(j) - ReceiverDelay \in Nat \ {0} /\ j - Lag \in Nat \ {0}
                           /\ Cell(Pick(j) - ReceiverDelay) = j - Lag
<1> DEFINE p == Interpolation
           q == Decimation
<1>1. PICK y, d, lag : y = Pick(j) /\ d = ReceiverDelay /\ lag = Lag
  OBVIOUS
<1>2. p \in Nat \ {0} /\ q \in Nat \ {0} /\ q <= p /\ d \in Nat \ {0} /\ lag \in Nat
  BY <1>1, Ratio, LagFacts
<1>3. PICK r \in 0 .. p - 1 : d * q = lag * p + r /\ q - 1 <= r
  BY <1>1, LagFacts
<1>4. y \in Nat \ {0} /\ j * p <= y * q /\ y * q < j * p + q
  BY <1>1, PickFacts
<1> HIDE DEF p, q
<1>5. CASE j <= lag
  <2>1. ~(d + 1 <= y)
    <3> SUFFICES ASSUME d + 1 <= y PROVE FALSE
      OBVIOUS
    <3>1. (d + 1) * q <= y * q /\ (d + 1) * q = d * q + q
      BY <1>2, <1>4
    <3>2. j * p <= lag * p
      BY <1>2, <1>5
    <3> DEFINE a == j * p
               b == lag * p
               c == d * q
               e == y * q
    <3>3. a \in Nat /\ b \in Nat /\ c \in Nat /\ e \in Nat /\ a <= b /\ c = b + r /\ c + q <= e
          /\ e < a + q
      BY <1>2, <1>3, <1>4, <3>1, <3>2
    <3> HIDE DEF a, b, c, e
    <3> QED BY <1>2, <3>3
  <2>2. y <= d
    BY <1>2, <1>4, <2>1
  <2> QED BY <1>1, <1>4, <1>5, <2>2
<1>6. CASE ~(j <= lag)
  <2>1. PICK n, x : n = j - lag /\ x = y - d
    OBVIOUS
  <2>2. n \in Nat \ {0} /\ lag + n = j /\ x \in Int /\ y = d + x
    BY <1>2, <1>4, <1>6, <2>1
  <2>3. /\ j * p = lag * p + n * p /\ y * q = d * q + x * q /\ (n - 1) * p = n * p - p
        /\ n * p >= p /\ n * p \in Nat /\ x * q \in Int
    BY <1>2, <2>2
  <2>4. (n - 1) * p < x * q /\ x * q <= n * p
    <3> DEFINE a == lag * p
               b == n * p
               c == d * q
               e == x * q
    <3>1. a \in Nat /\ b \in Nat /\ c \in Nat /\ e \in Int /\ c = a + r
          /\ a + b <= c + e /\ c + e < (a + b) + q /\ (n - 1) * p = b - p
      BY <1>2, <1>3, <1>4, <2>3
    <3> HIDE DEF a, b, c, e
    <3>2. b - p < e /\ e <= b
      BY <1>2, <1>3, <3>1
    <3> QED BY <3>1, <3>2 DEF b, e
  <2>5. ~(x <= 0)
    <3> SUFFICES ASSUME x <= 0 PROVE FALSE
      OBVIOUS
    <3>1. x * q <= 0
      BY <1>2, <2>2
    <3> DEFINE b == n * p
               e == x * q
    <3>2. b \in Nat /\ e \in Int /\ b >= p /\ b - p < e /\ e <= 0
      BY <2>3, <2>4, <3>1
    <3> HIDE DEF b, e
    <3> QED BY <1>2, <3>2
  <2>6. x \in Nat \ {0}
    BY <2>2, <2>5
  <2>7. Cell(x) = n
    BY <2>2, <2>4, <2>6, CellUnique DEF p, q
  <2> QED BY <1>1, <1>4, <1>6, <2>1, <2>2, <2>6, <2>7
<1> QED BY <1>1, <1>5, <1>6

(* A sample that the resampler chooses is one of the stream, a lag before.  *)
LEMMA InputIsStream ==
  ASSUME SenderInv, ReceiverInv, NEW j \in Nat \ {0}, Pick(j) <= EmergedLen
  PROVE  /\ j <= Lag => Input[Pick(j)] = Zero
         /\ ~(j <= Lag) => /\ j - Lag \in 1 .. Out /\ j - Lag \in 1 .. Made
                           /\ Input[Pick(j)] = Stream[j - Lag]
<1>1. PICK y, d : y = Pick(j) /\ d = ReceiverDelay
  OBVIOUS
<1>2. y \in Nat \ {0} /\ d \in Nat /\ Lag \in Nat
  BY <1>1, PickCell, LagFacts
<1>3. y <= d + rpos /\ rpos \in Nat /\ rpos <= Len(air) /\ Len(air) \in Nat
  <2>1. /\ EmergedLen \in Nat /\ EmergedLen <= d + rpos /\ rpos \in Nat
        /\ rpos <= Len(air) /\ y <= EmergedLen
    BY <1>1, EmergedFacts, TakenFacts
  <2>2. Len(air) \in Nat
    BY OutFacts DEF SenderInv
  <2> QED BY <1>2, <2>1, <2>2
<1>4. /\ \A x \in 1 .. d : Input[x] = Zero
      /\ \A x \in 1 .. rpos : Input[d + x] = receiverDump[x]
      /\ \A x \in 1 .. rpos : receiverDump[x] = air[x]
  <2>1. rpos = Len(receiverDump)
    BY EmergedFacts
  <2> QED BY <1>1, <2>1, InputFacts DEF ReceiverInv, ReadInv
<1>5. CASE j <= Lag
  <2>1. y \in 1 .. d
    BY <1>1, <1>2, <1>5, PickCell
  <2> QED BY <1>1, <1>4, <1>5, <2>1
<1>6. CASE ~(j <= Lag)
  <2>1. PICK n, x : n = j - Lag /\ x = y - d
    OBVIOUS
  <2>2. n \in Nat \ {0} /\ x \in Nat \ {0} /\ Cell(x) = n
    BY <1>1, <1>6, <2>1, PickCell
  <2>3. x \in 1 .. rpos /\ y = d + x /\ x \in 1 .. Len(air)
    BY <1>2, <1>3, <2>1, <2>2
  <2>4. Input[y] = air[x]
    BY <1>4, <2>3
  <2>5. Len(air) = Ends(Out) /\ air[x] = air[Ends(n)] /\ Out \in Nat
    BY <2>2, <2>3, OutFacts DEF SenderInv, Repeated
  <2>6. n \in 1 .. Out
    BY <2>2, <2>3, <2>5, CellBound
  <2>7. n \in 1 .. Made /\ n <= Out
    <3>1. Out \in Nat /\ Delay \in Nat /\ Len(frame) \in Nat /\ Made = Out + Delay + Len(frame)
      BY OutFacts DEF SenderInv, Made
    <3> QED BY <2>6, <3>1
  <2>8. Stream[n] = air[Ends(n)]
    BY <2>7, StreamSample DEF SenderInv
  <2> QED BY <1>1, <1>6, <2>1, <2>4, <2>5, <2>6, <2>7, <2>8
<1> QED BY <1>5, <1>6

(* All of n samples of frames come out of both resamplers and the filter of *)
(* the receiver.                                                            *)
LEMMA GivenAtEnd ==
  ASSUME NEW n \in Nat
  PROVE  Given(ReceiverDelay + Ends(n)) = Lag + n
<1> DEFINE p == Interpolation
           q == Decimation
<1>1. PICK e, d, lag : e = Ends(n) /\ d = ReceiverDelay /\ lag = Lag
  OBVIOUS
<1>2. p \in Nat \ {0} /\ q \in Nat \ {0} /\ d \in Nat \ {0} /\ lag \in Nat
  BY <1>1, Ratio, LagFacts
<1>3. PICK r \in 0 .. p - 1 : d * q = lag * p + r /\ q - 1 <= r
  BY <1>1, LagFacts
<1>4. e \in Nat /\ e * q <= n * p /\ n * p < e * q + q
  BY <1>1, EndsFacts
<1> HIDE DEF p, q
<1>5. (d + e) * q = d * q + e * q /\ (lag + n) * p = lag * p + n * p
  BY <1>2, <1>4
<1>6. (lag + n) * p <= (d + e) * q /\ (d + e) * q < (lag + n) * p + p
  <2> DEFINE a == lag * p
             b == n * p
             c == d * q
             f == e * q
  <2>1. a \in Nat /\ b \in Nat /\ c \in Nat /\ f \in Nat /\ c = a + r /\ f <= b /\ b < f + q
        /\ (d + e) * q = c + f /\ (lag + n) * p = a + b
    BY <1>2, <1>3, <1>4, <1>5
  <2> HIDE DEF a, b, c, f
  <2>2. a + b <= c + f /\ c + f < (a + b) + p
    BY <1>2, <1>3, <2>1
  <2> QED BY <2>1, <2>2
<1>7. d + e \in Nat /\ lag + n \in Nat
  BY <1>2, <1>4
<1>8. Given(d + e) = lag + n
  BY <1>6, <1>7, GivenUnique DEF p, q
<1> QED BY <1>1, <1>8

(* No more is taken than was made, and all of the air at the end.           *)
LEMMA TakenBound ==
  ASSUME SenderInv, ReceiverInv
  PROVE  /\ Taken \in Nat /\ Taken <= Lag + Out /\ Taken <= Made + Lag
         /\ receiverPc \in {"last", "done"} /\ pending = <<>> /\ rpos = Len(air) =>
              Taken = Lag + Out
<1>1. /\ Delay \in Nat /\ ReceiverDelay \in Nat /\ Out \in Nat /\ Len(air) = Ends(Out)
      /\ Lag \in Nat /\ Len(frame) \in Nat /\ Made = Out + Delay + Len(frame) /\ Len(air) \in Nat
  BY LagFacts, OutFacts DEF SenderInv, Repeated, Made
<1>2. /\ EmergedLen \in Nat /\ Given(EmergedLen) \in Nat /\ Len(pending) \in Nat /\ Taken \in Nat
      /\ Taken + Len(pending) = Given(EmergedLen)
  BY TakenFacts
<1>3. Given(ReceiverDelay + Len(air)) = Lag + Out
  BY <1>1, GivenAtEnd
<1>4. EmergedLen <= ReceiverDelay + Len(air) /\ ReceiverDelay + Len(air) \in Nat
  <2>1. EmergedLen <= ReceiverDelay + rpos /\ rpos \in Nat /\ rpos <= Len(air)
    BY EmergedFacts
  <2> QED BY <1>1, <1>2, <2>1
<1>5. Given(EmergedLen) <= Lag + Out
  BY <1>2, <1>3, <1>4, GivenMonotone
<1>6. Taken <= Lag + Out /\ Taken <= Made + Lag
  BY <1>1, <1>2, <1>5
<1>7. ASSUME receiverPc \in {"last", "done"}, pending = <<>>, rpos = Len(air)
      PROVE  Taken = Lag + Out
  <2>1. EmergedLen = ReceiverDelay + Len(air)
    BY <1>7, EmergedFacts
  <2>2. Len(pending) = 0
    BY <1>7
  <2> QED BY <1>1, <1>2, <1>3, <2>1, <2>2
<1> QED BY <1>2, <1>6, <1>7
-----------------------------------------------------------------------------
(* What the synchronizer makes of a sample. *)

(* A frame of which some samples have come is an open frame.                *)
LEMMA PartialFacts ==
  ASSUME NEW number \in Nat, NEW payload \in Payloads, NEW k \in Nat
  PROVE  Partial(number, payload, k) \in OpenFrames
<1>1. Header(Id, number) \in {Header(Id, m) : m \in Nat}
  OBVIOUS
<1> QED BY <1>1 DEF Partial, OpenFrames

(* An open frame is not the absence of a frame.                             *)
LEMMA OpenIsNotSeeking ==
  ASSUME NEW f \in OpenFrames
  PROVE  f # R!Seeking
<1>1. DOMAIN f = {"header", "payload", "k", "intact"}
  BY DEF OpenFrames
<1>2. DOMAIN <<>> = {}
  OBVIOUS
<1>3. R!Seeking = <<>>
  BY DEF R!Seeking
<1> QED BY <1>1, <1>2, <1>3

(* What EXCEPT makes of an open frame.                                      *)
LEMMA OpenChanges ==
  ASSUME NEW f \in OpenFrames, NEW k \in Nat, NEW intact \in BOOLEAN,
         NEW g, g = [f EXCEPT !.k = k, !.intact = intact]
  PROVE  g = [header |-> f.header, payload |-> f.payload, k |-> k, intact |-> intact]
<1> DEFINE headers == {Header(Id, m) : m \in Nat}
<1>1. f \in [header : headers, payload : Payloads, k : Nat, intact : BOOLEAN]
  BY DEF OpenFrames
<1> HIDE DEF headers
<1> QED BY <1>1

(* A zero between frames changes nothing.                                   *)
LEMMA SeekingTakesZero ==
  ASSUME sync = R!Seeking, R!Take(Zero)
  PROVE  sync' = R!Seeking /\ delivered' = delivered
<1>1. R!SyncSample(Zero) = {R!Seeking}
  <2>1. ~R!StartsFrame(Zero)
    BY DEF R!StartsFrame, Zero
  <2>2. Zero # R!Noise
    <3>1. Len(Zero) = 0 /\ Len(R!Noise) = 1
      BY DEF Zero, R!Noise
    <3> QED BY <3>1
  <2> QED BY <2>1, <2>2 DEF R!SyncSample
<1>2. ~R!HeaderRefused(R!Seeking) /\ ~R!Complete(R!Seeking)
  BY DEF R!HeaderRefused, R!Complete
<1> QED BY <1>1, <1>2 DEF R!Take

(* The first sample of a frame opens it.                                    *)
LEMMA SeekingTakesFirst ==
  ASSUME sync = R!Seeking, NEW number \in Nat, NEW payload \in Payloads,
         R!Take(Sample(number, payload, 1))
  PROVE  sync' = Partial(number, payload, 1) /\ delivered' = delivered
<1> DEFINE s == Sample(number, payload, 1)
           f == Partial(number, payload, 1)
<1>1. R!SyncSample(s) = {f}
  <2>1. R!StartsFrame(s) /\ s[1] = Header(Id, number) /\ s[2] = payload
    BY SampleFacts DEF R!StartsFrame
  <2>2. R!Open(s[1], s[2]) = f
    BY <2>1 DEF R!Open, Partial
  <2> QED BY <2>1, <2>2 DEF R!SyncSample
<1>2. f.k = 1 /\ f.intact /\ f.payload = payload
  BY DEF Partial
<1> HIDE DEF f
<1>3. ~R!HeaderRefused(f) /\ ~R!Complete(f)
  <2>1. HeaderLen \in Nat \ {0} /\ Len(payload) \in Nat \ {0}
    BY SamplesAssumption, PayloadFacts
  <2>2. 1 # HeaderLen + Len(payload)
    BY <2>1
  <2> QED BY <1>2, <2>2 DEF R!HeaderRefused, R!Complete
<1>4. \A g \in R!SyncSample(s) : g = f
  BY <1>1
<1> QED BY <1>3, <1>4 DEF R!Take, f

(* The next sample of a frame continues or completes it.                    *)
LEMMA OpenTakesNext ==
  ASSUME NEW number \in Nat, NEW payload \in Payloads, NEW k \in Nat,
         sync = Partial(number, payload, k),
         R!Take(Sample(number, payload, k + 1))
  PROVE  IF k + 1 = HeaderLen + Len(payload)
         THEN sync' = R!Seeking /\ delivered' = Append(delivered, payload)
         ELSE sync' = Partial(number, payload, k + 1) /\ delivered' = delivered
<1> DEFINE s == Sample(number, payload, k + 1)
           f == Partial(number, payload, k + 1)
<1>1. sync # R!Seeking
  BY PartialFacts, OpenIsNotSeeking
<1>2. R!SyncSample(s) = {f}
  <2>1. [sync EXCEPT !.k = @ + 1,
                     !.intact = @ /\ s = <<sync.header, sync.payload, sync.k + 1>>] = f
    <3> DEFINE intact == sync.intact /\ s = <<sync.header, sync.payload, sync.k + 1>>
    <3>1. /\ sync = [header |-> Header(Id, number), payload |-> payload, k |-> k, intact |-> TRUE]
          /\ sync.header = Header(Id, number) /\ sync.payload = payload
          /\ sync.k = k /\ sync.intact = TRUE
      BY DEF Partial
    <3>2. s = <<sync.header, sync.payload, sync.k + 1>>
      BY <3>1 DEF Sample
    <3>3. intact = TRUE
      BY <3>1, <3>2
    <3>4. [sync EXCEPT !.k = @ + 1,
                       !.intact = @ /\ s = <<sync.header, sync.payload, sync.k + 1>>]
            = [sync EXCEPT !.k = k + 1, !.intact = intact]
      BY <3>1
    <3> HIDE DEF intact
    <3>5. [sync EXCEPT !.k = k + 1, !.intact = TRUE] = f
      <4>1. sync \in OpenFrames
        BY PartialFacts
      <4>2. [sync EXCEPT !.k = k + 1, !.intact = TRUE]
              = [header |-> sync.header, payload |-> sync.payload, k |-> k + 1, intact |-> TRUE]
        <5>1. k + 1 \in Nat /\ TRUE \in BOOLEAN
          OBVIOUS
        <5>2. PICK g : g = [sync EXCEPT !.k = k + 1, !.intact = TRUE]
          OBVIOUS
        <5>3. g = [header |-> sync.header, payload |-> sync.payload, k |-> k + 1, intact |-> TRUE]
          BY ONLY <4>1, <5>1, <5>2, OpenChanges
        <5> QED BY <5>2, <5>3
      <4> QED BY <3>1, <4>2 DEF Partial
    <3> QED BY <3>3, <3>4, <3>5
  <2> QED BY <1>1, <2>1 DEF R!SyncSample
<1>3. /\ f.k = k + 1 /\ f.intact = TRUE /\ f.payload = payload /\ f.header = Header(Id, number)
      /\ f # R!Seeking /\ Header(Id, number)[1] = Id
  <2>1. f \in OpenFrames
    BY PartialFacts
  <2>2. f # R!Seeking
    BY <2>1, OpenIsNotSeeking
  <2> QED BY <2>2 DEF Partial, Header
<1> HIDE DEF f
<1>4. \A g \in R!SyncSample(s) : g = f
  BY <1>2
<1>5. ~R!HeaderRefused(f) /\ (R!Complete(f) <=> k + 1 = HeaderLen + Len(payload))
  BY <1>3 DEF R!HeaderRefused, R!Complete
<1>6. \/ ~R!Complete(f) /\ sync' = f /\ delivered' = delivered
      \/ R!Complete(f) /\ sync' = R!Seeking /\ delivered' = Append(delivered, payload)
  <2>1. R!FrameReceived(f.header, TRUE, f.payload, f.intact) =>
          delivered' = Append(delivered, payload)
    BY <1>3 DEF R!FrameReceived
  <2> QED BY <1>4, <1>5, <2>1 DEF R!Take
<1> QED BY <1>5, <1>6 DEF f

(* A zero in a frame damages it for good. *)
LEMMA OpenTakesZero ==
  ASSUME sync \in OpenFrames, R!Take(Zero)
  PROVE  delivered' = delivered /\ (sync' # R!Seeking => sync' \in OpenFrames)
<1> DEFINE headers == {Header(Id, number) : number \in Nat}
           intact == sync.intact /\ Zero = <<sync.header, sync.payload, sync.k + 1>>
           f == [sync EXCEPT !.k = @ + 1, !.intact = @ /\
                               Zero = <<sync.header, sync.payload, sync.k + 1>>]
<1>1. R!SyncSample(Zero) = {f}
  BY OpenIsNotSeeking DEF R!SyncSample
<1>2. sync \in [header : headers, payload : Payloads, k : Nat, intact : BOOLEAN]
  BY DEF OpenFrames
<1>3. intact = FALSE
  <2>1. Len(Zero) = 0 /\ Len(<<sync.header, sync.payload, sync.k + 1>>) = 3
    BY DEF Zero
  <2> QED BY <2>1
<1>4. f = [sync EXCEPT !.k = sync.k + 1, !.intact = intact]
  BY <1>2
<1>5. f = [header |-> sync.header, payload |-> sync.payload, k |-> sync.k + 1, intact |-> FALSE]
  <2> HIDE DEF headers, intact, f
  <2>1. sync.k + 1 \in Nat
    BY <1>2
  <2>2. PICK g : g = f
    OBVIOUS
  <2>3. FALSE \in BOOLEAN /\ g = [sync EXCEPT !.k = sync.k + 1, !.intact = FALSE]
    BY <1>3, <1>4, <2>2
  <2>4. sync \in OpenFrames
    OBVIOUS
  <2>5. g = [header |-> sync.header, payload |-> sync.payload, k |-> sync.k + 1,
             intact |-> FALSE]
    BY ONLY <2>1, <2>3, <2>4, OpenChanges
  <2> QED BY <2>2, <2>5
<1> HIDE DEF headers, intact, f
<1>6. f \in OpenFrames /\ f.intact = FALSE
  <2>1. f \in [header : headers, payload : Payloads, k : Nat, intact : BOOLEAN]
    BY <1>2, <1>5
  <2> QED BY <1>5, <2>1 DEF OpenFrames, headers
<1>7. \A g \in R!SyncSample(Zero) : g = f
  BY <1>1
<1>8. \/ sync' = f /\ delivered' = delivered
      \/ sync' = R!Seeking /\ delivered' = delivered
  <2>1. /\ R!FrameReceived(f.header, FALSE, <<>>, FALSE) => delivered' = delivered
        /\ R!FrameReceived(f.header, TRUE, f.payload, f.intact) => delivered' = delivered
    BY <1>6 DEF R!FrameReceived
  <2> QED BY <1>7, <2>1 DEF R!Take
<1> QED BY <1>6, <1>8
-----------------------------------------------------------------------------
(* The synchronizer follows the frames of the stream. *)

(* What the synchronizer does not see leaves it where it is.                *)
LEMMA FollowedSame ==
  ASSUME NEW place, NEW number, Followed(place, number), sent' = sent, SameView
  PROVE  Followed(place, number)'
<1>1. \A i : FrameLen(i)' = FrameLen(i)
  BY DEF FrameLen
<1>2. Taken' = Taken /\ sync' = sync /\ delivered' = delivered /\ (Following' => Following)
  BY DEF SameView
<1>3. delivered' \in Seq(Payloads) /\ Len(delivered') <= Len(sent')
      /\ (sync' # R!Seeking => sync' \in OpenFrames)
  BY <1>2 DEF Followed
<1>4. \A i \in 1 .. Len(delivered') :
        delivered'[i] = sent'[i] /\ place[i] + FrameLen(i)' + Lag <= Taken'
  BY <1>1, <1>2 DEF Followed
<1>5. Following' /\ sync' = R!Seeking =>
        \A i \in Len(delivered') + 1 .. Len(sent') : Taken' <= place[i] + Lag
  BY <1>2 DEF Followed
<1>6. Following' /\ sync' # R!Seeking =>
        Len(delivered') + 1 <= Len(sent') /\ InFrame(place, number, Len(delivered) + 1)'
  <2> SUFFICES ASSUME Following', sync' # R!Seeking
               PROVE  /\ Len(delivered') + 1 <= Len(sent')
                      /\ InFrame(place, number, Len(delivered) + 1)'
    OBVIOUS
  <2>1. Len(delivered) + 1 <= Len(sent) /\ InFrame(place, number, Len(delivered) + 1)
    BY <1>2 DEF Followed
  <2>2. InFrame(place, number, Len(delivered) + 1)'
    BY <1>2, <2>1 DEF InFrame, FrameLen
  <2> QED BY <1>2, <2>1, <2>2
<1> QED BY <1>3, <1>4, <1>5, <1>6 DEF Followed

(* A new frame is behind all that the synchronizer has taken. *)
Extended(n, m, place, number, payload, p, q) ==
  /\ n \in Nat /\ n = Len(sent) /\ m \in Nat /\ Taken <= m + Lag
  /\ payload \in Payloads /\ sent' = Append(sent, payload)
  /\ p \in [1 .. n + 1 -> Nat]
  /\ \A i \in 1 .. n : p[i] = place[i] /\ q[i] = number[i]
  /\ p[n + 1] = m

(* A new frame leaves the synchronizer where it is.                         *)
LEMMA FollowedMore ==
  ASSUME SenderTypes, NEW N, NEW m, NEW place, NEW number, NEW payload, NEW p, NEW q,
         Extended(N, m, place, number, payload, p, q), Followed(place, number),
         UNCHANGED <<Taken, sync, delivered, Following>>
  PROVE  Followed(p, q)'
<1> USE DEF Extended
<1> DEFINE d == Len(delivered)
<1>1. (\A i \in 1 .. N : p[i] = place[i]) /\ p[N + 1] = m
  OBVIOUS
<1>2. \A i \in 1 .. N : q[i] = number[i]
  OBVIOUS
<1>3. sent \in Seq(Payloads) /\ Len(sent') = N + 1 /\ \A i \in 1 .. N : sent'[i] = sent[i]
  BY DEF SenderTypes
<1>4. \A i \in 1 .. N : FrameLen(i)' = FrameLen(i)
  BY <1>3 DEF FrameLen
<1>5. d \in Nat /\ d <= N /\ delivered' = delivered /\ delivered \in Seq(Payloads)
  BY DEF Followed
<1>6. delivered' \in Seq(Payloads) /\ Len(delivered') <= Len(sent')
      /\ (sync' # R!Seeking => sync' \in OpenFrames)
  BY <1>3, <1>5 DEF Followed
<1>7. \A i \in 1 .. Len(delivered') :
        delivered'[i] = sent'[i] /\ p[i] + FrameLen(i)' + Lag <= Taken'
  <2> SUFFICES ASSUME NEW i \in 1 .. d
               PROVE  delivered[i] = sent'[i] /\ p[i] + FrameLen(i)' + Lag <= Taken
    BY <1>5
  <2>1. i \in 1 .. N
    BY <1>5
  <2>2. delivered[i] = sent[i] /\ place[i] + FrameLen(i) + Lag <= Taken
    BY DEF Followed
  <2> QED BY <1>1, <1>3, <1>4, <2>1, <2>2
<1>8. Following' /\ sync' = R!Seeking =>
        \A i \in Len(delivered') + 1 .. Len(sent') : Taken' <= p[i] + Lag
  <2> SUFFICES ASSUME Following, sync = R!Seeking, NEW i \in d + 1 .. N + 1
               PROVE  Taken <= p[i] + Lag
    BY <1>3, <1>5
  <2>1. CASE i = N + 1
    BY <1>1, <2>1
  <2>2. CASE i # N + 1
    <3>1. i \in 1 .. N /\ i \in d + 1 .. N
      BY <1>5, <2>2
    <3>2. Taken <= place[i] + Lag
      BY <3>1 DEF Followed
    <3> QED BY <1>1, <3>1, <3>2
  <2> QED BY <2>1, <2>2
<1>9. Following' /\ sync' # R!Seeking =>
        Len(delivered') + 1 <= Len(sent') /\ InFrame(p, q, Len(delivered) + 1)'
  <2> SUFFICES ASSUME Following, sync # R!Seeking
               PROVE  /\ d + 1 <= N + 1 /\ InFrame(p, q, Len(delivered) + 1)'
    BY <1>3, <1>5
  <2>1. d + 1 <= N /\ InFrame(place, number, d + 1)
    BY DEF Followed
  <2>2. d + 1 \in 1 .. N /\ d + 1 <= N + 1
    BY <1>5, <2>1
  <2>3. p[d + 1] = place[d + 1] /\ q[d + 1] = number[d + 1] /\ sent'[d + 1] = sent[d + 1]
        /\ FrameLen(d + 1) = HeaderLen + Len(sent'[d + 1])
    BY <1>1, <1>2, <1>3, <2>2 DEF FrameLen
  <2>4. PICK k \in 1 .. FrameLen(d + 1) - 1 :
          /\ sync = Partial(number[d + 1], sent[d + 1], k)
          /\ Taken = place[d + 1] + k + Lag
    BY <2>1 DEF InFrame
  <2>5. /\ k \in 1 .. (HeaderLen + Len(sent'[Len(delivered') + 1])) - 1
        /\ sync' = Partial(q[Len(delivered') + 1], sent'[Len(delivered') + 1], k)
        /\ Taken' = p[Len(delivered') + 1] + k + Lag
    <3>1. Len(delivered') + 1 = d + 1 /\ sync' = sync /\ Taken' = Taken
      BY <1>5
    <3> HIDE DEF d
    <3> QED BY <2>3, <2>4, <3>1
  <2>6. InFrame(p, q, Len(delivered) + 1)'
    BY <2>5 DEF InFrame, FrameLen
  <2> QED BY <2>2, <2>6
<1> QED BY <1>6, <1>7, <1>8, <1>9 DEF Followed

(* Where the next frame begins. *)
LEMMA NextFrame ==
  ASSUME SenderInv, ReceiverInv, NEW place \in [1 .. Len(sent) -> Nat],
         NEW number \in [1 .. Len(sent) -> Nat], Laid(place, number), Followed(place, number),
         Following, sync = R!Seeking, NEW x \in 1 .. Made, x + Lag = Taken + 1, Stream[x] # Zero
  PROVE  /\ Len(delivered) + 1 \in 1 .. Len(sent)
         /\ x = place[Len(delivered) + 1] + 1
         /\ Stream[x] = Sample(number[Len(delivered) + 1], sent[Len(delivered) + 1], 1)
<1> DEFINE N == Len(sent)
           d == Len(delivered)
<1>1. d \in Nat /\ N \in Nat /\ d <= N /\ Taken \in Nat /\ Lag \in Nat
  BY TakenFacts, LagType DEF Followed, SenderInv, SenderTypes
<1>0. PICK i \in 1 .. N : \E k \in 1 .. FrameLen(i) : x = place[i] + k
  BY DEF Laid
<1>2. PICK k \in 1 .. FrameLen(i) : x = place[i] + k
  BY <1>0
<1>3. FrameLen(i) \in Nat /\ place[i] \in Nat /\ k \in Nat /\ k <= FrameLen(i) /\ k >= 1
  BY FrameFacts DEF SenderInv
<1>4. ~(i <= d)
  <2> SUFFICES ASSUME i <= d PROVE FALSE
    OBVIOUS
  <2>1. i \in 1 .. d
    OBVIOUS
  <2>2. place[i] + FrameLen(i) + Lag <= Taken
    BY <2>1 DEF Followed
  <2> QED BY <1>1, <1>2, <1>3, <2>2
<1>5. i \in d + 1 .. N /\ Taken <= place[i] + Lag
  <2>1. i \in d + 1 .. N
    BY <1>1, <1>4
  <2> QED BY <2>1 DEF Followed
<1>6. k = 1 /\ Taken = place[i] + Lag
  BY <1>1, <1>2, <1>3, <1>5
<1>7. i = d + 1
  <2> SUFFICES ASSUME i # d + 1 PROVE FALSE
    OBVIOUS
  <2>1. d + 1 \in 1 .. N /\ d + 1 < i /\ d + 1 \in d + 1 .. N
    BY <1>1, <1>5
  <2>2. place[d + 1] + FrameLen(d + 1) <= place[i] /\ Taken <= place[d + 1] + Lag
    BY <2>1 DEF Laid, Followed
  <2>3. FrameLen(d + 1) \in Nat /\ FrameLen(d + 1) >= 2 /\ place[d + 1] \in Nat
    BY <2>1, FrameFacts DEF SenderInv
  <2> QED BY <1>1, <1>3, <1>6, <2>2, <2>3
<1>8. Stream[place[i] + k] = Sample(number[i], sent[i], k)
  BY DEF Laid
<1>9. PICK m : m = d + 1
  OBVIOUS
<1>10. m \in 1 .. N /\ x = place[m] + 1 /\ Stream[x] = Sample(number[m], sent[m], 1)
  BY <1>2, <1>6, <1>7, <1>8, <1>9
<1> QED BY <1>9, <1>10

(* The synchronizer goes on looking for a frame. *)
LEMMA FollowedSilence ==
  ASSUME SenderInv, ReceiverInv, NEW place \in [1 .. Len(sent) -> Nat],
         NEW number \in [1 .. Len(sent) -> Nat], Laid(place, number), Followed(place, number),
         Following, sync = R!Seeking, UNCHANGED <<sent, sync, delivered>>, Taken' = Taken + 1,
         \A x \in 1 .. Made : x + Lag = Taken + 1 => Stream[x] = Zero
  PROVE  Followed(place, number)'
<1> DEFINE N == Len(sent)
           d == Len(delivered)
<1>1. d \in Nat /\ N \in Nat /\ d <= N /\ Taken \in Nat /\ Lag \in Nat /\ Made \in Nat
  BY TakenFacts, LagType, OutFacts DEF Followed, SenderInv, SenderTypes
<1>2. \A i : FrameLen(i)' = FrameLen(i)
  BY DEF FrameLen
<1>3. \A i \in 1 .. N : FrameLen(i) \in Nat /\ FrameLen(i) >= 2 /\ place[i] \in Nat
  BY FrameFacts DEF SenderInv
<1>4. ASSUME NEW i \in d + 1 .. N PROVE Taken + 1 <= place[i] + Lag
  <2>1. i \in 1 .. N /\ Taken <= place[i] + Lag
    BY <1>1 DEF Followed
  <2>2. place[i] \in Nat
    BY <2>1
  <2> SUFFICES ASSUME ~(Taken + 1 <= place[i] + Lag) PROVE FALSE
    OBVIOUS
  <2>3. Taken = place[i] + Lag
    <3>1. \A a, b \in Nat : a <= b /\ ~(a + 1 <= b) => a = b
      OBVIOUS
    <3>2. place[i] + Lag \in Nat
      BY <1>1, <2>2
    <3> QED BY <1>1, <2>1, <3>1, <3>2
  <2>4. 1 \in 1 .. FrameLen(i) /\ place[i] + FrameLen(i) <= Made
    BY <1>3, <2>1 DEF Laid
  <2>5. Stream[place[i] + 1] = Sample(number[i], sent[i], 1)
    BY <2>1, <2>4 DEF Laid
  <2>6. place[i] + 1 \in 1 .. Made /\ (place[i] + 1) + Lag = Taken + 1
    BY <1>1, <1>3, <2>1, <2>3, <2>4
  <2>7. Stream[place[i] + 1] = Zero
    BY <2>6
  <2> QED BY <2>5, <2>7, SampleFacts
<1>5. delivered' \in Seq(Payloads) /\ Len(delivered') <= Len(sent')
      /\ (sync' # R!Seeking => sync' \in OpenFrames)
  BY DEF Followed
<1>6. \A i \in 1 .. Len(delivered') :
        delivered'[i] = sent'[i] /\ place[i] + FrameLen(i)' + Lag <= Taken'
  <2> SUFFICES ASSUME NEW i \in 1 .. d
               PROVE  delivered[i] = sent[i] /\ place[i] + FrameLen(i) + Lag <= Taken + 1
    BY <1>2
  <2>1. i \in 1 .. N /\ delivered[i] = sent[i] /\ place[i] + FrameLen(i) + Lag <= Taken
    BY <1>1 DEF Followed
  <2> QED BY <1>1, <1>3, <2>1
<1>7. Following' /\ sync' = R!Seeking =>
        \A i \in Len(delivered') + 1 .. Len(sent') : Taken' <= place[i] + Lag
  BY <1>4
<1>8. ~(sync' # R!Seeking)
  OBVIOUS
<1> QED BY <1>5, <1>6, <1>7, <1>8 DEF Followed

(* A frame begins or goes on. *)
LEMMA FollowedContinues ==
  ASSUME SenderInv, ReceiverInv, NEW place \in [1 .. Len(sent) -> Nat],
         NEW number \in [1 .. Len(sent) -> Nat], Followed(place, number),
         NEW i, i = Len(delivered) + 1, i \in 1 .. Len(sent), NEW k \in Nat, k \in 1 .. FrameLen(i) - 1,
         UNCHANGED <<sent, delivered>>, Taken' = Taken + 1,
         Taken + 1 = place[i] + k + Lag, sync' = Partial(number[i], sent[i], k)
  PROVE  Followed(place, number)'
<1> DEFINE N == Len(sent)
           d == Len(delivered)
<1>0. d \in Nat /\ N \in Nat
  <2>1. delivered \in Seq(Payloads) /\ sent \in Seq(Payloads)
    BY DEF Followed, SenderInv, SenderTypes
  <2> QED BY <2>1
<1>1. d \in Nat /\ N \in Nat /\ d <= N /\ Taken \in Nat /\ Lag \in Nat /\ i = d + 1
  BY <1>0, TakenFacts, LagType DEF Followed
<1>2. \A j : FrameLen(j)' = FrameLen(j)
  BY DEF FrameLen
<1>3. \A j \in 1 .. N : FrameLen(j) \in Nat /\ FrameLen(j) >= 2 /\ sent[j] \in Payloads /\ place[j] \in Nat
  BY FrameFacts DEF SenderInv
<1>4. sync' \in OpenFrames /\ sync' # R!Seeking
  <2>1. sent[i] \in Payloads /\ number[i] \in Nat /\ k \in Nat
    BY <1>3
  <2>2. sync' \in OpenFrames
    BY <2>1, PartialFacts
  <2> QED BY <2>2, OpenIsNotSeeking
<1>5. delivered' \in Seq(Payloads) /\ Len(delivered') <= Len(sent')
      /\ (sync' # R!Seeking => sync' \in OpenFrames)
  BY <1>4 DEF Followed
<1>6. \A j \in 1 .. Len(delivered') :
        delivered'[j] = sent'[j] /\ place[j] + FrameLen(j)' + Lag <= Taken'
  <2> SUFFICES ASSUME NEW j \in 1 .. d
               PROVE  delivered[j] = sent[j] /\ place[j] + FrameLen(j) + Lag <= Taken + 1
    BY <1>2
  <2>1. j \in 1 .. N /\ delivered[j] = sent[j] /\ place[j] + FrameLen(j) + Lag <= Taken
    BY <1>1 DEF Followed
  <2> QED BY <1>1, <1>3, <2>1
<1>7. InFrame(place, number, Len(delivered) + 1)'
  <2>1. /\ k \in 1 .. (HeaderLen + Len(sent'[Len(delivered') + 1])) - 1
        /\ sync' = Partial(number[Len(delivered') + 1], sent'[Len(delivered') + 1], k)
        /\ Taken' = place[Len(delivered') + 1] + k + Lag
    <3>1. Len(delivered') + 1 = i /\ sent' = sent
      BY <1>1
    <3>2. FrameLen(i) = HeaderLen + Len(sent[i]) /\ FrameLen(i) \in Nat /\ FrameLen(i) >= 2
      BY <1>3 DEF FrameLen
    <3> QED BY <3>1, <3>2
  <2> QED BY <2>1 DEF InFrame, FrameLen
<1>8. Len(delivered') + 1 <= Len(sent')
  BY <1>1
<1> QED BY <1>4, <1>5, <1>6, <1>7, <1>8 DEF Followed

(* A frame ends and is delivered. *)
LEMMA FollowedEnds ==
  ASSUME SenderInv, ReceiverInv, NEW place \in [1 .. Len(sent) -> Nat],
         NEW number \in [1 .. Len(sent) -> Nat], Laid(place, number), Followed(place, number),
         NEW i, i = Len(delivered) + 1, i \in 1 .. Len(sent),
         sent' = sent, delivered' = Append(delivered, sent[i]), Taken' = Taken + 1,
         Taken + 1 = place[i] + FrameLen(i) + Lag, sync' = R!Seeking
  PROVE  Followed(place, number)'
<1> DEFINE N == Len(sent)
           d == Len(delivered)
<1>0. d \in Nat /\ N \in Nat /\ delivered \in Seq(Payloads)
  <2>1. delivered \in Seq(Payloads) /\ sent \in Seq(Payloads)
    BY DEF Followed, SenderInv, SenderTypes
  <2> QED BY <2>1
<1>1. d <= N /\ Taken \in Nat /\ Lag \in Nat /\ i = d + 1
  BY TakenFacts, LagType DEF Followed
<1>2. \A j : FrameLen(j)' = FrameLen(j)
  BY DEF FrameLen
<1>3. \A j \in 1 .. N : FrameLen(j) \in Nat /\ sent[j] \in Payloads /\ place[j] \in Nat
  BY FrameFacts DEF SenderInv
<1>4. /\ delivered' \in Seq(Payloads) /\ Len(delivered') = d + 1
      /\ delivered'[i] = sent[i] /\ \A j \in 1 .. d : delivered'[j] = delivered[j]
  BY <1>0, <1>1, <1>3
<1>5. delivered' \in Seq(Payloads) /\ Len(delivered') <= Len(sent')
      /\ (sync' # R!Seeking => sync' \in OpenFrames)
  BY <1>0, <1>1, <1>4
<1>6. \A j \in 1 .. Len(delivered') :
        delivered'[j] = sent'[j] /\ place[j] + FrameLen(j)' + Lag <= Taken'
  <2> SUFFICES ASSUME NEW j \in 1 .. d + 1
               PROVE  delivered'[j] = sent[j] /\ place[j] + FrameLen(j) + Lag <= Taken + 1
    BY <1>2, <1>4
  <2>1. CASE j = i
    BY <1>1, <1>3, <1>4, <2>1
  <2>2. CASE j # i
    <3>1. j \in 1 .. d /\ j \in 1 .. N
      BY <1>0, <1>1, <2>2
    <3>2. delivered[j] = sent[j] /\ place[j] + FrameLen(j) + Lag <= Taken
      BY <3>1 DEF Followed
    <3> QED BY <1>1, <1>3, <1>4, <3>1, <3>2
  <2> QED BY <2>1, <2>2
<1>7. Following' /\ sync' = R!Seeking =>
        \A j \in Len(delivered') + 1 .. Len(sent') : Taken' <= place[j] + Lag
  <2> SUFFICES ASSUME NEW j \in (d + 1) + 1 .. N PROVE Taken + 1 <= place[j] + Lag
    BY <1>4
  <2>1. j \in 1 .. N /\ i < j
    BY <1>0, <1>1
  <2>2. place[i] + FrameLen(i) <= place[j]
    BY <2>1 DEF Laid
  <2>3. place[i] \in Nat /\ FrameLen(i) \in Nat /\ place[j] \in Nat
    BY <1>3, <2>1
  <2> QED BY <1>1, <2>2, <2>3
<1>8. ~(sync' # R!Seeking)
  OBVIOUS
<1> QED BY <1>5, <1>6, <1>7, <1>8 DEF Followed

(* A sample for the synchronizer: it goes on looking for a frame, or one    *)
(* begins, goes on or ends.                                                 *)
LEMMA FeedFollows ==
  ASSUME SenderInv, ReceiverInv, NEW place \in [1 .. Len(sent) -> Nat],
         NEW number \in [1 .. Len(sent) -> Nat], Laid(place, number), Followed(place, number),
         UNCHANGED <<senderVars, cutShort>>, R!Feed
  PROVE  /\ Followed(place, number)'
         /\ \/ delivered' = delivered
            \/ /\ Len(delivered) + 1 \in 1 .. Len(sent)
               /\ delivered' = Append(delivered, sent[Len(delivered) + 1])
<1> DEFINE N == Len(sent)
           d == Len(delivered)
           s == Input[Pick(Taken + 1)]
<1>1. /\ ReceiverInv' /\ Taken' = Taken + 1 /\ Following /\ R!Take(s)
      /\ Taken \in Nat /\ Pick(Taken + 1) <= EmergedLen
  BY ReceiverFeeds
<1>2. sent' = sent
  BY DEF senderVars, senderTransfer
<1>3. d \in Nat /\ N \in Nat /\ d <= N /\ Lag \in Nat /\ Made \in Nat
  <2>1. delivered \in Seq(Payloads) /\ sent \in Seq(Payloads) /\ d <= N
    BY DEF Followed, SenderInv, SenderTypes
  <2> QED BY <2>1, LagType, OutFacts DEF SenderInv
<1>4. /\ Taken + 1 <= Lag => s = Zero
      /\ ~(Taken + 1 <= Lag) => /\ (Taken + 1) - Lag \in 1 .. Made
                                /\ s = Stream[(Taken + 1) - Lag]
  <2>1. Taken + 1 \in Nat \ {0}
    BY <1>1
  <2>2. PICK j : j = Taken + 1
    OBVIOUS
  <2>3. j \in Nat \ {0} /\ Pick(j) <= EmergedLen
    BY <1>1, <2>1, <2>2
  <2>4. /\ j <= Lag => Input[Pick(j)] = Zero
        /\ ~(j <= Lag) => /\ j - Lag \in 1 .. Out /\ j - Lag \in 1 .. Made
                          /\ Input[Pick(j)] = Stream[j - Lag]
    BY <2>3, InputIsStream
  <2> QED BY <2>2, <2>4
<1> HIDE DEF s
<1>5. \A x \in 1 .. Made : x + Lag = Taken + 1 => s = Stream[x] /\ x = (Taken + 1) - Lag
  <2> SUFFICES ASSUME NEW x \in 1 .. Made, x + Lag = Taken + 1
               PROVE  s = Stream[x] /\ x = (Taken + 1) - Lag
    OBVIOUS
  <2>1. ~(Taken + 1 <= Lag) /\ x = (Taken + 1) - Lag
    BY <1>1, <1>3
  <2> QED BY <1>4, <2>1
<1>6. CASE sync = R!Seeking /\ s = Zero
  <2>1. sync' = sync /\ delivered' = delivered
    BY <1>1, <1>6, SeekingTakesZero
  <2>2. \A x \in 1 .. Made : x + Lag = Taken + 1 => Stream[x] = Zero
    BY <1>5, <1>6
  <2>3. Followed(place, number)'
    BY <1>1, <1>2, <1>6, <2>1, <2>2, FollowedSilence
  <2> QED BY <2>1, <2>3
<1>7. CASE sync = R!Seeking /\ s # Zero
  <2>1. PICK x \in 1 .. Made : x + Lag = Taken + 1 /\ s = Stream[x]
    <3>1. ~(Taken + 1 <= Lag) /\ ((Taken + 1) - Lag) + Lag = Taken + 1
      BY <1>1, <1>3, <1>4, <1>7
    <3> QED BY <1>4, <3>1
  <2>2. PICK i : i = d + 1
    OBVIOUS
  <2>3. i \in 1 .. N /\ x = place[i] + 1 /\ s = Sample(number[i], sent[i], 1)
    BY <1>1, <1>7, <2>1, <2>2, NextFrame
  <2>4. number[i] \in Nat /\ sent[i] \in Payloads /\ FrameLen(i) \in Nat /\ FrameLen(i) >= 2
    BY <2>3, FrameFacts DEF SenderInv
  <2>5. sync' = Partial(number[i], sent[i], 1) /\ delivered' = delivered
    BY <1>1, <1>7, <2>3, <2>4, SeekingTakesFirst
  <2>6. 1 \in Nat /\ 1 \in 1 .. FrameLen(i) - 1 /\ Taken + 1 = place[i] + 1 + Lag
    BY <2>1, <2>3, <2>4
  <2>7. Followed(place, number)'
    BY <1>1, <1>2, <2>2, <2>3, <2>5, <2>6, FollowedContinues
  <2> QED BY <2>5, <2>7
<1>8. CASE sync # R!Seeking
  <2>1. PICK i : i = d + 1
    OBVIOUS
  <2>2. i <= N /\ InFrame(place, number, i)
    BY <1>1, <1>8, <2>1 DEF Followed
  <2>3. PICK k \in 1 .. FrameLen(i) - 1 :
          sync = Partial(number[i], sent[i], k) /\ Taken = place[i] + k + Lag
    BY <2>2 DEF InFrame
  <2>4. i \in 1 .. N
    BY <1>3, <2>1, <2>2
  <2>5. /\ number[i] \in Nat /\ sent[i] \in Payloads /\ FrameLen(i) \in Nat
        /\ place[i] \in Nat /\ place[i] + FrameLen(i) <= Made
        /\ FrameLen(i) = HeaderLen + Len(sent[i])
    BY <2>4, FrameFacts DEF SenderInv, Laid
  <2>6. k \in Nat /\ k + 1 \in 1 .. FrameLen(i) /\ k + 1 \in Nat
    BY <2>5
  <2>7. /\ place[i] + (k + 1) \in 1 .. Made /\ (place[i] + (k + 1)) + Lag = Taken + 1
         /\ Taken + 1 = place[i] + (k + 1) + Lag
    <3>1. PICK a, f, t : a = place[i] /\ f = FrameLen(i) /\ t = Taken
      OBVIOUS
    <3>2. a \in Nat /\ f \in Nat /\ a + f <= Made /\ k + 1 <= f /\ t = a + k + Lag
      BY <2>3, <2>5, <2>6, <3>1
    <3>3. a + (k + 1) \in 1 .. Made /\ (a + (k + 1)) + Lag = t + 1 /\ t + 1 = a + (k + 1) + Lag
      BY <1>3, <2>6, <3>2
    <3> QED BY <3>1, <3>3
  <2>8. s = Sample(number[i], sent[i], k + 1)
    <3>1. place[i] + (k + 1) \in 1 .. Made /\ (place[i] + (k + 1)) + Lag = Taken + 1
      BY <2>7
    <3>2. Stream[place[i] + (k + 1)] = Sample(number[i], sent[i], k + 1)
      BY <2>4, <2>6 DEF Laid
    <3> QED BY <1>5, <3>1, <3>2
  <2>9. R!Take(Sample(number[i], sent[i], k + 1))
    BY <1>1, <2>8
  <2>10. IF k + 1 = FrameLen(i)
        THEN sync' = R!Seeking /\ delivered' = Append(delivered, sent[i])
        ELSE sync' = Partial(number[i], sent[i], k + 1) /\ delivered' = delivered
    BY <2>3, <2>5, <2>6, <2>9, OpenTakesNext
  <2>11. CASE k + 1 = FrameLen(i)
    <3>1. sync' = R!Seeking /\ delivered' = Append(delivered, sent[i])
      BY <2>10, <2>11
    <3>2. Followed(place, number)'
      BY <1>1, <1>2, <2>1, <2>4, <2>7, <2>11, <3>1, FollowedEnds
    <3> QED BY <2>1, <2>4, <3>1, <3>2
  <2>12. CASE k + 1 # FrameLen(i)
    <3>1. sync' = Partial(number[i], sent[i], k + 1) /\ delivered' = delivered
      BY <2>10, <2>12
    <3>2. k + 1 \in 1 .. FrameLen(i) - 1
      BY <2>5, <2>6, <2>12
    <3>3. Followed(place, number)'
      BY <1>1, <1>2, <2>1, <2>4, <2>6, <2>7, <3>1, <3>2, FollowedContinues
    <3> QED BY <3>1, <3>3
  <2> QED BY <2>11, <2>12
<1> QED BY <1>6, <1>7, <1>8
-----------------------------------------------------------------------------
(* The end of the stream. *)

(* A receiver that was not stopped has found all the frames when there is    *)
(* nothing left for its synchronizer.                                       *)
LEMMA NothingLeft ==
  ASSUME SenderInv, ReceiverInv, NEW place \in [1 .. Len(sent) -> Nat],
         NEW number \in [1 .. Len(sent) -> Nat], Laid(place, number), Followed(place, number),
         receiverPc \in {"last", "done"}, pending = <<>>, ~cutShort
  PROVE  sync = R!Seeking /\ delivered = sent
<1> DEFINE N == Len(sent)
           d == Len(delivered)
<1>1. senderPc \in {"created", "done"} /\ rpos = Len(air)
  BY DEF ReceiverInv, EndInv
<1>2. frame = <<>> /\ \A m \in 1 .. Delay : senderLine[m] = Zero
  <2>1. frame = <<>> /\ pad = 0 /\ \A m \in 1 .. Delay : m > pad => senderLine[m] = Zero
    BY <1>1 DEF SenderInv, SenderPlace
  <2>2. \A m \in 1 .. Delay : m > 0
    BY SamplesAssumption
  <2> QED BY <2>1, <2>2
<1>3. /\ Out \in Nat /\ Delay \in Nat /\ Made = Out + Delay /\ Lag \in Nat /\ Taken = Lag + Out
  <2>1. Out \in Nat /\ Delay \in Nat
    BY OutFacts DEF SenderInv
  <2> QED BY <1>1, <1>2, <2>1, LagType, TakenBound DEF Made
<1>4. \A x \in 1 .. Made : ~(x <= Out) => Stream[x] = Zero
  <2> SUFFICES ASSUME NEW x \in 1 .. Made, ~(x <= Out) PROVE Stream[x] = Zero
    OBVIOUS
  <2>1. x - Out \in 1 .. Delay /\ x <= Out + Delay
    BY <1>3
  <2>2. Stream[x] = senderLine[x - Out]
    BY <2>1, StreamSample DEF SenderInv
  <2> QED BY <1>2, <2>1, <2>2
<1>5. ASSUME NEW i \in 1 .. N
      PROVE  /\ place[i] \in Nat /\ FrameLen(i) \in Nat /\ FrameLen(i) >= 2
             /\ place[i] + FrameLen(i) <= Out
  <2>1. FrameLen(i) \in Nat /\ FrameLen(i) >= 2 /\ place[i] \in Nat
    BY FrameFacts DEF SenderInv
  <2>2. FrameLen(i) \in 1 .. FrameLen(i) /\ place[i] + FrameLen(i) <= Made
    BY <2>1 DEF Laid
  <2>3. Stream[place[i] + FrameLen(i)] = Sample(number[i], sent[i], FrameLen(i))
    BY <2>2 DEF Laid
  <2>4. Stream[place[i] + FrameLen(i)] # Zero
    BY <2>3, SampleFacts
  <2>5. place[i] + FrameLen(i) \in 1 .. Made
    BY <1>3, <2>1, <2>2
  <2> QED BY <1>4, <2>1, <2>4, <2>5
<1>6. d \in Nat /\ N \in Nat /\ d <= N /\ delivered \in Seq(Payloads) /\ sent \in Seq(Payloads)
  <2>1. delivered \in Seq(Payloads) /\ sent \in Seq(Payloads) /\ d <= N
    BY DEF Followed, SenderInv, SenderTypes
  <2> QED BY <2>1
<1>7. Following
  BY DEF Following
<1>8. sync = R!Seeking
  <2> SUFFICES ASSUME sync # R!Seeking PROVE FALSE
    OBVIOUS
  <2>1. PICK i : i = d + 1
    OBVIOUS
  <2>2. i <= N /\ InFrame(place, number, i)
    BY <1>7, <2>1 DEF Followed
  <2>3. PICK k \in 1 .. FrameLen(i) - 1 : Taken = place[i] + k + Lag
    BY <2>2 DEF InFrame
  <2>4. i \in 1 .. N
    BY <1>6, <2>1, <2>2
  <2>5. PICK a, f : a = place[i] /\ f = FrameLen(i)
    OBVIOUS
  <2>6. a \in Nat /\ f \in Nat /\ a + f <= Out /\ k \in 1 .. f - 1 /\ Lag + Out = a + k + Lag
    BY <1>3, <1>5, <2>3, <2>4, <2>5
  <2> QED BY <1>3, <2>6
<1>9. d = N
  <2> SUFFICES ASSUME d # N PROVE FALSE
    OBVIOUS
  <2>1. PICK i : i = d + 1
    OBVIOUS
  <2>2. i \in 1 .. N /\ i \in d + 1 .. N
    BY <1>6, <2>1
  <2>3. Taken <= place[i] + Lag
    BY <1>7, <1>8, <2>2 DEF Followed
  <2>4. PICK a, f : a = place[i] /\ f = FrameLen(i)
    OBVIOUS
  <2>5. a \in Nat /\ f \in Nat /\ f >= 2 /\ a + f <= Out /\ Lag + Out <= a + Lag
    BY <1>3, <1>5, <2>2, <2>3, <2>4
  <2> QED BY <1>3, <2>5
<1>10. \A i \in 1 .. N : delivered[i] = sent[i]
  BY <1>9 DEF Followed
<1>11. delivered = sent
  BY <1>6, <1>9, <1>10
<1> QED BY <1>8, <1>11

(* Zeros that complete an open frame: only after a stop, and for nothing. *)
LEMMA DrainFollows ==
  ASSUME SenderInv, ReceiverInv, NEW place \in [1 .. Len(sent) -> Nat],
         NEW number \in [1 .. Len(sent) -> Nat], Laid(place, number), Followed(place, number),
         UNCHANGED <<senderVars, cutShort>>, R!Drain
  PROVE  ReceiverInv' /\ Followed(place, number)' /\ delivered' = delivered
<1> USE DEF R!Drain, R!radioVars, R!resamplerVars
<1>1. /\ receiverPc = "last" /\ pending = <<>> /\ sync # R!Seeking /\ R!Take(R!Zero)
      /\ UNCHANGED <<receiverPc, pending, rpos, receiverLine, receiverPhase, receiverDump>>
  OBVIOUS
<1>2. UNCHANGED <<air, sent, Written, PipeClosed, senderPc>>
  BY DEF senderVars, senderTransfer, Written, Flushed, PipeClosed, SenderProgram!Ended
<1>3. cutShort
  <2>1. ~cutShort => sync = R!Seeking
    BY <1>1, NothingLeft
  <2> QED BY <1>1, <2>1
<1>4. delivered' = delivered /\ (sync' # R!Seeking => sync' \in OpenFrames)
  <2>1. sync \in OpenFrames
    BY <1>1 DEF Followed
  <2>2. R!Zero = Zero
    BY DEF R!Zero, Zero
  <2> QED BY <1>1, <2>1, <2>2, OpenTakesZero
<1>5. Taken' = Taken /\ EmergedLen' = EmergedLen /\ Input' = Input
  BY <1>1 DEF Taken, EmergedLen, Input, R!EmptyLine
<1>6. ReceiverInv'
  BY <1>1, <1>2, <1>5 DEF ReceiverInv, ReceiverTypes, ReadInv, ResamplerInv, EndInv
<1>7. ~Following'
  BY <1>1, <1>3 DEF Following
<1>8. \A i : FrameLen(i)' = FrameLen(i)
  BY <1>2 DEF FrameLen
<1>9. \A i \in 1 .. Len(delivered') :
        delivered'[i] = sent'[i] /\ place[i] + FrameLen(i)' + Lag <= Taken'
  BY <1>2, <1>4, <1>5, <1>8 DEF Followed
<1>10. delivered' \in Seq(Payloads) /\ Len(delivered') <= Len(sent')
  BY <1>2, <1>4 DEF Followed
<1>11. Followed(place, number)'
  BY <1>4, <1>7, <1>9, <1>10 DEF Followed
<1> QED BY <1>4, <1>6, <1>11
-----------------------------------------------------------------------------
(* The inductive invariant. *)

Placed(place, number) ==
  /\ place \in [1 .. Len(sent) -> Nat] /\ number \in [1 .. Len(sent) -> Nat]
  /\ Laid(place, number) /\ Followed(place, number)

LinkInv ==
  SenderInv /\ Processes /\ ReceiverInv /\ \E place, number : Placed(place, number)

(* At first the sender has made nothing but zeros.                          *)
LEMMA InitSender ==
  ASSUME Init
  PROVE  SenderInv /\ sent = <<>> /\ Made = Delay /\ \A x \in 1 .. Made : Stream[x] = Zero
<1>1. /\ senderPc = "created" /\ pos = 0 /\ eof = FALSE /\ sent = <<>> /\ air = <<>>
      /\ frame = <<>> /\ counter = 0 /\ pad = 0 /\ ending = FALSE /\ senderPhase = 0
      /\ senderLine = S!EmptyLine
      /\ avail = IF Source = "stdin" THEN 0 ELSE DataSize
  BY DEF Init, S!Init
<1>2. senderLine \in Seq(SampleSet) /\ Len(senderLine) = Delay
      /\ \A m \in 1 .. Delay : senderLine[m] = Zero
  BY <1>1, EmptyLineFacts
<1>3. /\ Delay \in Nat \ {0} /\ DataSize \in Nat
  BY SamplesAssumption, LinkAssumption
<1>4. SenderTypes
  <2>1. avail \in 0 .. DataSize /\ pos \in 0 .. avail /\ pad \in 0 .. Delay
    BY <1>1, <1>3
  <2>3. sent \in Seq(Payloads) /\ frame \in Seq(SampleSet) /\ air \in Seq(SampleSet)
    BY <1>1
  <2> QED BY <1>1, <1>2, <2>1, <2>3 DEF SenderTypes
<1>5. Out = 0 /\ Len(air) = 0 /\ Len(frame) = 0
  <2>1. Len(air) = 0 /\ Len(frame) = 0
    BY <1>1
  <2>2. Cell(0) = 0
    BY CellFacts
  <2> QED BY <2>1, <2>2 DEF Out
<1>6. Repeated
  <2>1. Ends(0) = 0 /\ NextPhase(0, 0) = 0
    <3>1. Interpolation \in Nat \ {0} /\ Decimation \in Nat \ {0}
      BY Ratio
    <3>2. 0 + 0 * Interpolation = 0 /\ 0 \div Decimation = 0 /\ 0 % Decimation = 0
      <4>1. (0 * Decimation + 0) \div Decimation = 0 /\ (0 * Decimation + 0) % Decimation = 0
        BY <3>1, DivisionUnique
      <4>2. 0 * Decimation + 0 = 0 /\ 0 + 0 * Interpolation = 0
        BY <3>1
      <4> QED BY <4>1, <4>2
    <3> QED BY <3>2 DEF Ends, OutputLen, NextPhase
  <2> QED BY <1>1, <1>5, <2>1 DEF Repeated
<1>7. \A m \in 1 .. Delay : senderLine[m] = Zero
  BY <1>2
<1>8. SenderPlace
  BY <1>1, <1>7 DEF SenderPlace
<1>9. SenderReads
  <2>1. S!Units(0, 0) = <<>>
    BY DEF S!Units
  <2> QED BY <1>1, <2>1, FlattenEmpty DEF SenderReads
<1>10. Made = Delay
  BY <1>3, <1>5 DEF Made
<1>11. \A x \in 1 .. Made : Stream[x] = Zero
  <2> SUFFICES ASSUME NEW x \in 1 .. Made PROVE Stream[x] = Zero
    OBVIOUS
  <2>1. ~(x <= Out) /\ x <= Out + Delay /\ x - Out = x /\ x \in 1 .. Delay
    BY <1>3, <1>5, <1>10
  <2> QED BY <1>4, <1>7, <2>1, StreamSample
<1> QED BY <1>1, <1>4, <1>6, <1>8, <1>9, <1>10, <1>11 DEF SenderInv

(* At first the receiver has taken nothing.                                 *)
LEMMA InitReceiver ==
  ASSUME Init
  PROVE  /\ ReceiverInv /\ Processes /\ Taken = 0 /\ sync = R!Seeking /\ delivered = <<>>
         /\ receiverPc = "created"
<1>1. /\ receiverPc = "created" /\ rpos = 0 /\ receiverDump = <<>> /\ receiverLine = R!EmptyLine
      /\ receiverPhase = 0 /\ pending = <<>> /\ sync = R!Seeking /\ delivered = <<>>
      /\ cutShort = FALSE
  BY DEF Init, R!Init
<1>2. receiverLine \in Seq(SampleSet) /\ Len(receiverLine) = ReceiverDelay
      /\ \A m \in 1 .. ReceiverDelay : receiverLine[m] = Zero
  BY <1>1, EmptyLineFacts
<1>4. ReceiverTypes
  <2>1. receiverDump \in Seq(SampleSet) /\ pending \in Seq(SampleSet)
    BY <1>1
  <2>3. cutShort \in BOOLEAN
    BY <1>1
  <2> QED BY <1>1, <1>2, <2>1, <2>3 DEF ReceiverTypes
<1>5. ReadInv
  <2>1. Len(Written) \in Nat
    BY InitSender, WrittenFacts DEF SenderInv
  <2> QED BY <1>1, <2>1 DEF ReadInv
<1>6. EmergedLen = 0 /\ Given(0) = 0 /\ R!NextPhase(0, 0) = 0
  <2>1. Interpolation \in Nat \ {0} /\ Decimation \in Nat
    BY Ratio
  <2>2. (0 * Interpolation + 0) \div Interpolation = 0 /\ (0 * Interpolation + 0) % Interpolation = 0
    BY <2>1, DivisionUnique
  <2>3. 0 * Interpolation + 0 = 0 /\ 0 + 0 * Decimation = 0
    BY <2>1
  <2>4. 0 \div Interpolation = 0 /\ 0 % Interpolation = 0
    BY <2>2, <2>3
  <2>5. EmergedLen = 0
    BY <1>1 DEF EmergedLen
  <2> QED BY <2>3, <2>4, <2>5 DEF Given, R!OutputLen, R!NextPhase
<1>7. Taken = 0 /\ Len(pending) = 0
  BY <1>1, <1>6 DEF Taken
<1>8. ResamplerInv
  <2>1. \A m \in 1 .. ReceiverDelay : receiverLine[m] = Input[Len(receiverDump) + m]
    <3> SUFFICES ASSUME NEW m \in 1 .. ReceiverDelay PROVE receiverLine[m] = Input[0 + m]
      BY <1>1
    <3>1. Input[m] = Zero /\ 0 + m = m
      BY <1>4, InputFacts
    <3> QED BY <1>2, <3>1
  <2> QED BY <1>1, <1>6, <1>7, <2>1 DEF ResamplerInv
<1>9. EndInv
  BY <1>1 DEF EndInv
<1>10. Processes
  BY <1>1 DEF Init, Processes, SenderProgram!Init, ReceiverProgram!Init, S!Init
<1> QED BY <1>1, <1>4, <1>5, <1>7, <1>8, <1>9, <1>10 DEF ReceiverInv

(* The invariant holds at first.                                            *)
LEMMA InitLink == Init => LinkInv
<1> SUFFICES ASSUME Init PROVE LinkInv
  OBVIOUS
<1>1. /\ SenderInv /\ sent = <<>> /\ Len(sent) = 0
      /\ \A x \in 1 .. Made : Stream[x] = Zero
  BY InitSender
<1>2. /\ ReceiverInv /\ Processes /\ Taken = 0 /\ sync = R!Seeking /\ delivered = <<>>
  BY InitReceiver
<1>3. PICK f : f = [i \in 1 .. 0 |-> 0]
  OBVIOUS
<1>4. f \in [1 .. Len(sent) -> Nat]
  BY <1>1, <1>3
<1>5. Laid(f, f)
  BY <1>1 DEF Laid
<1>6. Followed(f, f)
  BY <1>1, <1>2 DEF Followed
<1>7. Placed(f, f)
  BY <1>4, <1>5, <1>6 DEF Placed
<1> QED BY <1>1, <1>2, <1>7 DEF LinkInv

(* A step of the sender, or of what happens to it. *)
LEMMA SenderSideStep ==
  ASSUME SenderInv, Processes, ReceiverInv, SenderSide, NEW place, NEW number,
         Placed(place, number)
  PROVE  LinkInv'
<1> DEFINE N == Len(sent)
<1>1. /\ SenderInv' /\ Processes' /\ (Silent \/ NewFrame) /\ UNCHANGED receiverVars
  BY SenderKeeps
<1>2. ReceiverInv'
  BY ReceiverSees DEF ReceiverInv
<1>3. UNCHANGED <<receiverPc, pending, sync, delivered, receiverDump, cutShort>>
  BY <1>1 DEF receiverVars, receiverTransfer
<1>4. Taken' = Taken /\ Following' = Following
  BY <1>3 DEF Taken, EmergedLen, Following
<1>5. CASE Silent
  <2>1. sent' = sent
    BY <1>5 DEF Silent
  <2>2. Laid(place, number)'
    BY <1>5, LaidKept DEF Silent, Placed, SenderInv
  <2>3. SameView
    BY <1>3, <1>4 DEF SameView
  <2>4. Followed(place, number)'
    BY <2>1, <2>3, FollowedSame DEF Placed
  <2>5. Placed(place, number)'
    BY <2>1, <2>2, <2>4 DEF Placed
  <2> QED BY <1>1, <1>2, <2>5 DEF LinkInv
<1>6. CASE NewFrame
  <2>1. PICK payload \in Payloads :
          /\ sent' = Append(sent, payload)
          /\ Made' = Made + HeaderLen + Len(payload)
          /\ \A x \in 1 .. Made : Stream'[x] = Stream[x]
          /\ \A k \in 1 .. HeaderLen + Len(payload) :
               Stream'[Made + k] = Sample(counter, payload, k)
    BY <1>6 DEF NewFrame
  <2>2. PICK n, m, c : n = N /\ m = Made /\ c = counter
    OBVIOUS
  <2>3. /\ n \in Nat /\ m \in Nat /\ c \in Nat /\ Taken <= m + Lag
        /\ Len(sent') = n + 1
        /\ place \in [1 .. n -> Nat] /\ number \in [1 .. n -> Nat]
        /\ Laid(place, number) /\ Followed(place, number)
    <3>1. sent \in Seq(Payloads) /\ counter \in Nat /\ Made \in Nat
      BY OutFacts DEF SenderInv, SenderTypes
    <3> QED BY <2>1, <2>2, <3>1, TakenBound DEF Placed
  <2>4. PICK p, q : p = More(place, n, m) /\ q = More(number, n, c)
    OBVIOUS
  <2>5. /\ p \in [1 .. n + 1 -> Nat] /\ (\A i \in 1 .. n : p[i] = place[i]) /\ p[n + 1] = m
    BY <2>3, <2>4, MoreFacts
  <2>6. q \in [1 .. n + 1 -> Nat] /\ \A i \in 1 .. n : q[i] = number[i]
    BY <2>3, <2>4, MoreFacts
  <2>7. Laid(p, q)'
    <3>1. \A k \in 1 .. HeaderLen + Len(payload) :
            Stream'[Made + k] = Sample(c, payload, k)
      BY <2>1, <2>2
    <3>2. Laid(More(place, n, m), More(number, n, c))'
      BY <2>1, <2>2, <2>3, <3>1, LaidMore DEF SenderInv
    <3> QED BY <2>4, <3>2
  <2>8. Followed(p, q)'
    <3>1. SenderTypes
      BY DEF SenderInv
    <3>2. UNCHANGED <<Taken, sync, delivered, Following>>
      BY <1>3, <1>4
    <3>3. Extended(n, m, place, number, payload, p, q)
      BY <2>1, <2>2, <2>3, <2>5, <2>6 DEF Extended
    <3> QED BY ONLY <2>3, <3>1, <3>2, <3>3, FollowedMore
  <2>9. Placed(p, q)'
    BY <2>3, <2>5, <2>6, <2>7, <2>8 DEF Placed
  <2> QED BY <1>1, <1>2, <2>9 DEF LinkInv
<1> QED BY <1>1, <1>5, <1>6

(* A step of the transfer of the receiver. *)
LEMMA ReceiverThread ==
  ASSUME SenderInv, Processes, ReceiverInv, UNCHANGED senderVars, ReceiverTransfers,
         NEW place \in [1 .. Len(sent) -> Nat], NEW number \in [1 .. Len(sent) -> Nat],
         Laid(place, number), Followed(place, number)
  PROVE  ReceiverInv' /\ Followed(place, number)'
<1>1. /\ receiverStage = "transfer" /\ R!ThreadStep
      /\ cutShort' = (cutShort \/ (receiverPc = "loop" /\ R!Stopped))
  BY DEF ReceiverTransfers
<1>2. sent' = sent
  BY DEF senderVars, senderTransfer
<1>3. cutShort \in BOOLEAN
  BY DEF ReceiverInv, ReceiverTypes
<1>4. receiverPc # "loop" => UNCHANGED <<senderVars, cutShort>>
  BY <1>1, <1>3
<1>5. ~R!TimeoutExceeded
  BY DEF R!TimeoutExceeded
<1>6. CASE R!Start \/ R!TestStop \/ R!EndOfInput \/ R!BlockDone \/ R!Return
  <2>1. ReceiverInv' /\ SameView
    BY <1>1, <1>6, ReceiverTurns
  <2> QED BY <1>2, <2>1, FollowedSame
<1>7. ASSUME NEW n \in R!Readable, R!ReceiveBlock(n)
      PROVE  ReceiverInv' /\ Followed(place, number)'
  <2>1. receiverPc # "loop"
    BY <1>7 DEF R!ReceiveBlock
  <2>2. ReceiverInv' /\ SameView
    BY <1>4, <1>7, <2>1, ReceiverReads
  <2> QED BY <1>2, <2>2, FollowedSame
<1>8. CASE R!Flush
  <2>1. receiverPc # "loop"
    BY <1>8 DEF R!Flush
  <2>2. ReceiverInv' /\ SameView
    BY <1>4, <1>8, <2>1, ReceiverFlushes
  <2> QED BY <1>2, <2>2, FollowedSame
<1>9. CASE R!Feed
  <2>1. receiverPc # "loop"
    BY <1>9 DEF R!Feed
  <2> QED BY <1>4, <1>9, <2>1, ReceiverFeeds, FeedFollows
<1>10. CASE R!Drain
  <2>1. receiverPc # "loop"
    BY <1>10 DEF R!Drain
  <2> QED BY <1>4, <1>10, <2>1, DrainFollows
<1>11. ASSUME NEW n \in R!Readable PROVE ~R!TimeOut(n)
  BY <1>5 DEF R!TimeOut
<1> QED BY <1>1, <1>6, <1>7, <1>8, <1>9, <1>10, <1>11 DEF R!ThreadStep

(* The other steps of the receiver, a signal and the end leave the transfer *)
(* as it is.                                                                *)
LEMMA ReceiverRests ==
  ASSUME ReceiverInv, UNCHANGED <<senderVars, receiverTransfer, receiverPc>>
  PROVE  ReceiverInv' /\ SameView
<1>1. /\ UNCHANGED <<rpos, receiverLine, receiverPhase, pending, sync, delivered,
                     receiverDump, cutShort, receiverPc>>
      /\ UNCHANGED <<air, senderStage, senderPc>>
  BY DEF receiverTransfer, senderVars, senderTransfer
<1>2. /\ EmergedLen' = EmergedLen /\ Input' = Input /\ Taken' = Taken
      /\ Written' = Written /\ PipeClosed' = PipeClosed /\ Following' = Following
  BY <1>1 DEF EmergedLen, Input, Taken, Written, Flushed, PipeClosed, SenderProgram!Ended,
              Following
<1>3. ReceiverTypes'
  BY <1>1 DEF ReceiverInv, ReceiverTypes
<1>4. ReadInv'
  BY <1>1, <1>2 DEF ReceiverInv, ReadInv
<1>5. ResamplerInv'
  BY <1>1, <1>2 DEF ReceiverInv, ResamplerInv
<1>6. EndInv'
  BY <1>1, <1>2 DEF ReceiverInv, EndInv
<1> QED BY <1>1, <1>2, <1>3, <1>4, <1>5, <1>6 DEF ReceiverInv, SameView

(* Nothing of the sender changes. *)
LEMMA SenderRests ==
  ASSUME SenderInv, UNCHANGED senderVars
  PROVE  SenderInv' /\ Silent
<1>1. UNCHANGED <<senderTransfer, senderPc>> /\ senderStop' = senderStop
  BY DEF senderVars
<1> QED BY <1>1, SenderUntouched

(* What the receiver does with its process. *)
LEMMA ReceiverProcess ==
  ASSUME Processes, UNCHANGED senderVars,
         ReceiverTransfers \/ ReceiverRuns \/ ReceiverProgram!Signal \/ UNCHANGED receiverVars
  PROVE  Processes'
<1>1. UNCHANGED <<senderStage, senderPc>>
  BY DEF senderVars
<1>2. CASE ReceiverTransfers
  <2>1. receiverStage = "transfer" /\ receiverStage' = "transfer"
    BY <1>2 DEF ReceiverTransfers
  <2> QED BY <1>1, <2>1 DEF Processes, Unread, ReceiverProgram!Ended
<1>3. CASE ReceiverRuns
  BY <1>1, <1>3 DEF Processes, Unread, ReceiverProgram!Ended, ReceiverRuns,
       ReceiverProgram!ParseOptions, ReceiverProgram!Create, ReceiverProgram!Return,
       ReceiverProgram!Exit
<1>4. CASE ReceiverProgram!Signal
  BY <1>1, <1>4 DEF Processes, Unread, ReceiverProgram!Ended, ReceiverProgram!Signal
<1>5. CASE UNCHANGED receiverVars
  <2>1. UNCHANGED <<receiverStage, receiverPc>>
    BY <1>5 DEF receiverVars
  <2> QED BY <1>1, <2>1 DEF Processes, Unread, ReceiverProgram!Ended
<1> QED BY <1>2, <1>3, <1>4, <1>5

(* A step of the receiver, or of what happens to it. *)
LEMMA ReceiverSideStep ==
  ASSUME SenderInv, Processes, ReceiverInv, NEW place, NEW number, Placed(place, number),
         UNCHANGED senderVars,
         \/ ReceiverTransfers
         \/ UNCHANGED receiverTransfer /\ (ReceiverRuns \/ ReceiverProgram!Signal)
         \/ UNCHANGED receiverVars
  PROVE  LinkInv'
<1>1. SenderInv' /\ Silent /\ sent' = sent
  BY SenderRests DEF Silent
<1>2. Processes'
  BY ReceiverProcess
<1>3. Laid(place, number)'
  BY <1>1, LaidKept DEF Silent, Placed, SenderInv
<1>4. /\ place \in [1 .. Len(sent) -> Nat] /\ number \in [1 .. Len(sent) -> Nat]
      /\ Laid(place, number) /\ Followed(place, number)
  BY DEF Placed
<1>5. ReceiverInv' /\ Followed(place, number)'
  <2>1. CASE ReceiverTransfers
    BY <1>4, <2>1, ReceiverThread
  <2>2. CASE ~ReceiverTransfers
    <3>1. UNCHANGED <<receiverTransfer, receiverPc>>
      BY <2>2 DEF receiverVars, ReceiverRuns, ReceiverProgram!ParseOptions,
                  ReceiverProgram!Create, ReceiverProgram!Return, ReceiverProgram!Exit,
                  ReceiverProgram!Signal
    <3>2. ReceiverInv' /\ SameView
      BY <3>1, ReceiverRests
    <3> QED BY <1>1, <1>4, <3>2, FollowedSame
  <2> QED BY <2>1, <2>2
<1>6. Placed(place, number)'
  BY <1>1, <1>3, <1>4, <1>5 DEF Placed
<1> QED BY <1>1, <1>2, <1>5, <1>6 DEF LinkInv

(* Every step of the link keeps the invariant. *)
LEMMA NextLink == LinkInv /\ [Next]_vars => LinkInv'
<1> SUFFICES ASSUME LinkInv, [Next]_vars PROVE LinkInv'
  OBVIOUS
<1>1. SenderInv /\ Processes /\ ReceiverInv
  BY DEF LinkInv
<1>2. PICK place, number : Placed(place, number)
  BY DEF LinkInv
<1>3. CASE SenderSide
  BY <1>1, <1>2, <1>3, SenderSideStep
<1>4. CASE ReceiverStep
  <2>1. ReceiverTransfers \/ (UNCHANGED receiverTransfer /\ ReceiverRuns)
    BY <1>4 DEF ReceiverStep, ReceiverRuns
  <2>2. UNCHANGED senderVars
    BY <1>4 DEF ReceiverStep
  <2> QED BY <1>1, <1>2, <2>1, <2>2, ReceiverSideStep
<1>5. CASE SignalReceiver
  <2>1. UNCHANGED senderVars /\ UNCHANGED receiverTransfer /\ ReceiverProgram!Signal
    BY <1>5 DEF SignalReceiver
  <2> QED BY <1>1, <1>2, <2>1, ReceiverSideStep
<1>6. CASE UNCHANGED vars
  <2>1. UNCHANGED senderVars /\ UNCHANGED receiverVars
    BY <1>6 DEF vars
  <2> QED BY <1>1, <1>2, <2>1, ReceiverSideStep
<1> QED BY <1>3, <1>4, <1>5, <1>6 DEF Next, Ended, SenderSide

(* Always, what the sender has made is frames and zeros, what the receiver  *)
(* has read is the beginning of what the sender has written, and the        *)
(* synchronizer is in the frame after those that it has delivered, or in    *)
(* the zeros before it.                                                     *)
THEOREM AlwaysLinkInv == Spec => []LinkInv
<1>1. Init => LinkInv
  BY InitLink
<1>2. LinkInv /\ [Next]_vars => LinkInv'
  BY NextLink
<1> QED BY <1>1, <1>2, PTL DEF Spec
-----------------------------------------------------------------------------
(* The link implements the delivery of payloads. *)

(* The link begins as the delivery does.                                    *)
LEMMA InitDelivery ==
  ASSUME Init
  PROVE  Delivery!Init
<1>1. sent = <<>>
  BY InitSender
<1>2. delivered = <<>> /\ receiverPc = "created"
  BY InitReceiver
<1> QED BY <1>1, <1>2 DEF Delivery!Init, State

(* A receiver that is complete has seen the sender end.                     *)
LEMMA CompleteIsClosed ==
  ASSUME ReceiverInv, State = "complete"
  PROVE  PipeClosed
BY DEF State, ReceiverInv, EndInv

(* The sender puts a payload into a frame, or nothing happens.              *)
LEMMA SenderDelivers ==
  ASSUME SenderInv, Processes, ReceiverInv, SenderSide
  PROVE  Delivery!Send \/ UNCHANGED Delivery!deliveryVars
<1>1. /\ Silent \/ NewFrame
      /\ UNCHANGED receiverVars
      /\ PipeClosed => sent' = sent
  BY SenderKeeps
<1>2. UNCHANGED <<delivered, State>>
  BY <1>1 DEF receiverVars, receiverTransfer, State
<1>3. CASE sent' = sent
  BY <1>2, <1>3 DEF Delivery!deliveryVars
<1>4. CASE sent' # sent
  <2>1. State # "complete"
    BY <1>1, <1>4, CompleteIsClosed
  <2>2. \E payload \in Payloads : sent' = Append(sent, payload)
    BY <1>1, <1>4 DEF Silent, NewFrame
  <2> QED BY <1>2, <2>1, <2>2 DEF Delivery!Send, Payloads
<1> QED BY <1>3, <1>4

(* The thread of the receiver delivers a payload, ends or does neither.     *)
LEMMA ThreadDelivers ==
  ASSUME SenderInv, Processes, ReceiverInv, UNCHANGED senderVars, ReceiverTransfers,
         NEW place \in [1 .. Len(sent) -> Nat], NEW number \in [1 .. Len(sent) -> Nat],
         Laid(place, number), Followed(place, number)
  PROVE  [Delivery!Next]_(Delivery!deliveryVars)
<1>1. /\ receiverStage = "transfer" /\ R!ThreadStep
      /\ cutShort' = (cutShort \/ (receiverPc = "loop" /\ R!Stopped))
  BY DEF ReceiverTransfers
<1>2. sent' = sent
  BY DEF senderVars, senderTransfer
<1>3. cutShort \in BOOLEAN
  BY DEF ReceiverInv, ReceiverTypes
<1>4. receiverPc # "loop" => UNCHANGED <<senderVars, cutShort>>
  BY <1>1, <1>3
<1>5. ASSUME receiverPc # "done", receiverPc' # "done", delivered' = delivered
      PROVE  UNCHANGED Delivery!deliveryVars
  BY <1>2, <1>5 DEF Delivery!deliveryVars, State
<1>6. CASE R!Start \/ R!TestStop \/ R!EndOfInput \/ R!BlockDone \/ R!Flush
  <2>1. receiverPc # "done" /\ receiverPc' # "done" /\ delivered' = delivered
    BY <1>6 DEF R!Start, R!TestStop, R!EndOfInput, R!BlockDone, R!Flush, R!syncVars
  <2> QED BY <1>5, <2>1
<1>7. ASSUME NEW n \in R!Readable, R!ReceiveBlock(n) \/ R!TimeOut(n)
      PROVE  UNCHANGED Delivery!deliveryVars
  <2>1. receiverPc # "done" /\ receiverPc' # "done" /\ delivered' = delivered
    BY <1>7 DEF R!ReceiveBlock, R!TimeOut, R!syncVars
  <2> QED BY <1>5, <2>1
<1>8. CASE R!Feed
  <2>1. receiverPc # "done" /\ receiverPc' = receiverPc /\ receiverPc # "loop"
    BY <1>8 DEF R!Feed
  <2>2. State = "open" /\ State' = "open"
    BY <2>1 DEF State
  <2>3. \/ delivered' = delivered
        \/ /\ Len(delivered) + 1 \in 1 .. Len(sent)
           /\ delivered' = Append(delivered, sent[Len(delivered) + 1])
    BY <1>4, <1>8, <2>1, FeedFollows
  <2>4. ASSUME Len(delivered) + 1 \in 1 .. Len(sent),
               delivered' = Append(delivered, sent[Len(delivered) + 1])
        PROVE  Delivery!Deliver
    <3>1. Len(delivered) \in Nat /\ Len(sent) \in Nat
      BY DEF Followed, SenderInv, SenderTypes
    <3>2. Len(delivered) < Len(sent)
      BY <2>4, <3>1
    <3> QED BY <1>2, <2>2, <2>4, <3>2 DEF Delivery!Deliver
  <2>5. ASSUME delivered' = delivered PROVE UNCHANGED Delivery!deliveryVars
    BY <1>2, <2>2, <2>5 DEF Delivery!deliveryVars
  <2> QED BY <2>3, <2>4, <2>5 DEF Delivery!Next
<1>9. CASE R!Drain
  <2>1. receiverPc # "done" /\ receiverPc' = receiverPc /\ receiverPc # "loop"
    BY <1>9 DEF R!Drain
  <2>2. delivered' = delivered
    BY <1>4, <1>9, <2>1, DrainFollows
  <2> QED BY <1>5, <2>1, <2>2
<1>10. CASE R!Return
  <2>1. /\ receiverPc = "last" /\ receiverPc' = "done" /\ pending = <<>>
        /\ delivered' = delivered
    BY <1>10 DEF R!Return, R!syncVars
  <2>2. cutShort' = cutShort
    BY <1>4, <2>1
  <2>3. State = "open" /\ State' = IF cutShort THEN "cut" ELSE "complete"
    BY <2>1, <2>2 DEF State
  <2>4. CASE cutShort
    BY <1>2, <2>1, <2>3, <2>4 DEF Delivery!Cut, Delivery!Next
  <2>5. CASE ~cutShort
    <3>1. delivered = sent
      BY <2>1, <2>5, NothingLeft
    <3> QED BY <1>2, <2>1, <2>3, <2>5, <3>1 DEF Delivery!Complete, Delivery!Next
  <2> QED BY <2>4, <2>5
<1> QED BY <1>1, <1>6, <1>7, <1>8, <1>9, <1>10 DEF R!ThreadStep

(* A step of the link is a step of the delivery or leaves it alone.         *)
LEMMA NextDelivers ==
  ASSUME LinkInv, [Next]_vars
  PROVE  [Delivery!Next]_(Delivery!deliveryVars)
<1>1. SenderInv /\ Processes /\ ReceiverInv
  BY DEF LinkInv
<1>2. PICK place, number : Placed(place, number)
  BY DEF LinkInv
<1>3. CASE SenderSide
  BY <1>1, <1>3, SenderDelivers DEF Delivery!Next
<1>4. CASE ReceiverStep /\ ReceiverTransfers
  BY <1>1, <1>2, <1>4, ThreadDelivers DEF ReceiverStep, Placed
<1>5. CASE ~SenderSide /\ ~(ReceiverStep /\ ReceiverTransfers)
  <2>1. UNCHANGED <<sent, delivered, receiverPc, cutShort>>
    BY <1>5 DEF Next, Ended, SenderSide, ReceiverStep, ReceiverRuns, SignalReceiver,
                ReceiverProgram!ParseOptions, ReceiverProgram!Create,
                ReceiverProgram!Return, ReceiverProgram!Exit, ReceiverProgram!Signal,
                vars, senderVars, senderTransfer, receiverVars, receiverTransfer
  <2> QED BY <2>1 DEF Delivery!deliveryVars, State
<1> QED BY <1>3, <1>4, <1>5

(* Every behaviour of the link is a behaviour of the delivery: the payloads *)
(* that the sender puts into frames come out of the receiver once each and  *)
(* in the same order, however the blocks are cut, whatever waits in the     *)
(* buffer of the pipe and whichever process is stopped, fails or is killed; *)
(* a receiver that was not stopped has them all.                            *)
THEOREM LinkDelivers == Spec => ImplementsDelivery
<1>1. Init => Delivery!Init
  BY InitDelivery
<1>2. LinkInv /\ [Next]_vars => [Delivery!Next]_(Delivery!deliveryVars)
  BY NextDelivers
<1> QED BY <1>1, <1>2, AlwaysLinkInv, PTL DEF Spec, ImplementsDelivery, Delivery!Spec
-----------------------------------------------------------------------------
(* Once both processes have exited without a stop, the receiver has all the *)
(* data of the sender.                                                      *)
LEMMA ExitedHasAll == LinkInv => RoundTrip
<1> SUFFICES ASSUME LinkInv, senderStage = "exited", receiverStage = "exited",
                    ~S!Stopped, ~cutShort
             PROVE  FlattenSeq(delivered) = S!Units(0, avail) /\ sourceClosed
  BY DEF RoundTrip
<1>1. SenderInv /\ Processes /\ ReceiverInv
  BY DEF LinkInv
<1>2. PICK place, number : Placed(place, number)
  BY DEF LinkInv
<1>3. senderPc = "done" /\ receiverPc = "done"
  BY <1>1 DEF Processes
<1>4. sourceClosed /\ pos = avail /\ FlattenSeq(sent) = S!Units(0, avail)
  BY <1>1, <1>3 DEF SenderInv, SenderReads
<1>5. pending = <<>>
  BY <1>1, <1>3 DEF ReceiverInv, ResamplerInv
<1>6. delivered = sent
  BY <1>1, <1>2, <1>3, <1>5, NothingLeft DEF Placed
<1> QED BY <1>4, <1>6

(* Always, once both processes have exited and none was stopped, the data   *)
(* that the receiver has written is the data that the sender has read, all  *)
(* of it, whatever its length, the blocks, the frames and the filters.      *)
THEOREM AlwaysRoundTrip == Spec => []RoundTrip
BY AlwaysLinkInv, ExitedHasAll, PTL
=============================================================================
