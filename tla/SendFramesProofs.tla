-------------------------- MODULE SendFramesProofs --------------------------
(***************************************************************************)
(* Proofs about SendFrames, for every payload, block, buffer and filter     *)
(* size, every resampling ratio and every amount of data.                   *)
(***************************************************************************)
EXTENDS SendFrames, SamplesProofs

(* What the resampler gives for a block, whatever its phase, fits in the    *)
(* buffer that send_frames() allocates.                                     *)
LEMMA OutputFits ==
  ASSUME NEW ph \in 0 .. Decimation - 1, NEW n \in Nat, n <= BlockSize + Delay
  PROVE  OutputLen(ph, n) \in 0 .. SamplesSize
<1> USE SamplesAssumption, SendAssumption
<1> DEFINE x == ph + n * Interpolation
           y == (BlockSize + Delay) * Interpolation + Decimation - 1
<1>1. /\ n * Interpolation \in Nat /\ (BlockSize + Delay) * Interpolation \in Nat
      /\ n * Interpolation <= (BlockSize + Delay) * Interpolation
  OBVIOUS
<1>2. x \in Nat /\ y \in Nat /\ x <= y
  BY <1>1
<1>3. x \div Decimation <= y \div Decimation
  BY <1>2, QuotientMonotone
<1>4. x \div Decimation \in Nat /\ y \div Decimation \in Nat
  BY <1>2, Division
<1> QED BY <1>3, <1>4 DEF OutputLen, SamplesSize

LEMMA SamplesSizeNat == SamplesSize \in Nat
<1> USE SamplesAssumption, SendAssumption
<1>1. (BlockSize + Delay) * Interpolation + Decimation - 1 \in Nat
  OBVIOUS
<1> QED BY <1>1, Division DEF SamplesSize

-----------------------------------------------------------------------------
(* The inductive invariant: between two calls of send_to_radio() nothing is *)
(* pending, send_dummy_samples() has something to send, and a file or a     *)
(* pipe has taken everything.                                               *)
IInv ==
  /\ TypeOK
  /\ StreamIntact
  /\ pc = "created" => air = <<>> /\ dump = <<>> /\ chunk = <<>>
  /\ pc # "write" => chunk = <<>>
  /\ pc = "dummy" => pad > 0
  /\ pc = "write" => Radio = "SOAPYSDR"
  /\ Radio # "SOAPYSDR" => air = dump

LEMMA UnitsType ==
  ASSUME NEW first \in Nat, NEW n \in Nat, first + n <= DataSize
  PROVE  Units(first, n) \in Seq(1 .. DataSize)
  BY SendAssumption DEF Units

LEMMA FrameType ==
  ASSUME NEW c \in 0 .. CounterValues - 1, NEW payload \in Seq(1 .. DataSize)
  PROVE  FrameSamples(Header(Id, c), payload) \in Seq(SampleSet)
<1>1. Len(payload) \in Nat /\ HeaderLen + Len(payload) \in Nat
  BY SamplesAssumption
<1>2. Header(Id, c) \in {Id} \X (0 .. CounterValues - 1)
  BY DEF Header
<1>3. \A k \in 1 .. HeaderLen + Len(payload) :
        <<Header(Id, c), payload, k>> \in SampleSet
  BY <1>1, <1>2 DEF SampleSet
<1> QED BY <1>1, <1>3 DEF FrameSamples

LEMMA ZeroType == Zero \in SampleSet /\ <<Zero>> \in Seq(SampleSet)
  BY DEF SampleSet, Zero

(* send_to_radio() keeps the stream intact. *)
LEMMA SendToRadioStep ==
  ASSUME IInv, pc \in {"frame", "dummy"}, NEW out \in Seq(SampleSet),
         Len(out) \in 0 .. SamplesSize, SendToRadio(out),
         UNCHANGED <<stop, transferStop, ending>>,
         pad' \in 0 .. Delay
  PROVE  /\ pc' \in {"read", "frame", "dummy", "write", "done"}
         /\ chunk' \in Seq(SampleSet) /\ chunkSize' \in 0 .. SamplesSize /\ burst' \in 0 .. MTU
         /\ air' \in Seq(SampleSet) /\ dump' \in Seq(SampleSet)
         /\ StreamIntact'
         /\ pc' # "write" => chunk' = <<>>
         /\ pc' = "dummy" => pad' > 0
         /\ pc' = "write" => Radio = "SOAPYSDR"
         /\ Radio # "SOAPYSDR" => air' = dump'
<1>1. /\ chunk = <<>> /\ air \in Seq(SampleSet) /\ dump \in Seq(SampleSet)
      /\ burst \in 0 .. MTU /\ ending \in BOOLEAN
      /\ IsPrefix(air, dump) /\ (~Stopped => air \o chunk = dump)
      /\ Radio # "SOAPYSDR" => air = dump
  BY DEF IInv, TypeOK, StreamIntact
<1>2. /\ dump' = dump \o out /\ dump' \in Seq(SampleSet)
      /\ chunkSize' = Len(out) /\ chunkSize' \in 0 .. SamplesSize /\ burst' = burst
  BY <1>1, ConcatProperties DEF SendToRadio
<1>3. Stopped' = Stopped
  BY DEF Stopped
<1>4. air \o <<>> = air
  BY <1>1, ConcatEmptySeq
<1>5. CASE Radio = "SOAPYSDR"
  <2>1. chunk' = out /\ pc' = "write" /\ air' = air
    BY <1>5 DEF SendToRadio
  <2>2. IsPrefix(air, dump \o out)
    BY <1>1, PrefixExtends
  <2>3. ~Stopped => air \o out = dump \o out
    BY <1>1, <1>4
  <2> QED BY <1>1, <1>2, <1>3, <1>5, <2>1, <2>2, <2>3 DEF StreamIntact
<1>6. CASE Radio # "SOAPYSDR"
  <2>1. chunk' = <<>> /\ air' = air \o out /\ pc' = Caller(frame', pad')
    BY <1>1, <1>6 DEF SendToRadio
  <2>2. /\ pc' \in {"read", "frame", "dummy", "done"}
        /\ pc' = "dummy" => pad' > 0
    BY <2>1 DEF Caller
  <2>3. air' = dump'
    BY <1>1, <1>2, <1>6, <2>1
  <2>4. air' \o <<>> = dump'
    BY <1>2, <2>3, ConcatEmptySeq
  <2>5. IsPrefix(air', dump')
    BY <1>2, <2>3, <2>4, PrefixOfConcat, EmptySeq
  <2>6. StreamIntact'
    BY <2>1, <2>4, <2>5 DEF StreamIntact
  <2> QED BY <1>1, <1>2, <2>1, <2>2, <2>3, <2>6, EmptySeq
<1> QED BY <1>5, <1>6

LEMMA TransmitStep ==
  ASSUME IInv, pc \in {"frame", "dummy"}, NEW in \in Seq(SampleSet),
         Len(in) <= BlockSize + Delay, Transmit(in),
         UNCHANGED <<stop, transferStop, sourceVars, readVars, ending>>,
         frame' \in Seq(SampleSet), counter' \in 0 .. CounterValues - 1, pad' \in 0 .. Delay
  PROVE  IInv'
<1> DEFINE out == Resample(phase, Emerging(line, in))
<1>1. /\ line \in Seq(SampleSet) /\ Len(line) = Delay
      /\ phase \in 0 .. Decimation - 1
  BY DEF IInv, TypeOK
<1>2. /\ Emerging(line, in) \in Seq(SampleSet)
      /\ Len(Emerging(line, in)) = Len(in)
      /\ line' \in Seq(SampleSet) /\ Len(line') = Delay
  BY <1>1, FilterType DEF Transmit
<1>3. out \in Seq(SampleSet) /\ phase' \in 0 .. Decimation - 1
  BY <1>1, <1>2, ResampleType DEF Transmit
<1>9. Len(out) \in 0 .. SamplesSize
  <2>1. Len(in) \in Nat /\ OutputLen(phase, Len(in)) \in 0 .. SamplesSize
    BY <1>1, OutputFits
  <2>2. Len(out) = OutputLen(phase, Len(in))
    BY <1>2, <2>1 DEF Resample
  <2> QED BY <2>1, <2>2
<1>4. SendToRadio(out)
  BY DEF Transmit
<1> HIDE DEF out
<1>5. /\ pc' \in {"read", "frame", "dummy", "write", "done"}
      /\ chunk' \in Seq(SampleSet) /\ chunkSize' \in 0 .. SamplesSize /\ burst' \in 0 .. MTU
      /\ air' \in Seq(SampleSet) /\ dump' \in Seq(SampleSet)
      /\ StreamIntact'
      /\ pc' # "write" => chunk' = <<>>
      /\ pc' = "dummy" => pad' > 0
      /\ pc' = "write" => Radio = "SOAPYSDR"
      /\ Radio # "SOAPYSDR" => air' = dump'
  BY <1>3, <1>4, <1>9, SendToRadioStep
<1>6. TypeOK'
  BY <1>2, <1>3, <1>5 DEF IInv, TypeOK, sourceVars, readVars
<1> QED BY <1>5, <1>6 DEF IInv
-----------------------------------------------------------------------------
LEMMA InitIInv == Init => IInv
<1> SUFFICES ASSUME Init PROVE IInv
  OBVIOUS
<1> USE SamplesAssumption, SendAssumption
<1>1. line \in Seq(SampleSet) /\ Len(line) = Delay
  BY ZeroType DEF Init, EmptyLine
<1>2. TypeOK
  <2>1. closed \in BOOLEAN
    BY DEF Init
  <2>2. avail \in 0 .. DataSize /\ pos \in 0 .. avail
    BY DEF Init
  <2>3. /\ frame \in Seq(SampleSet) /\ chunk \in Seq(SampleSet)
        /\ air \in Seq(SampleSet) /\ dump \in Seq(SampleSet)
        /\ sent \in Seq(Seq(1 .. DataSize))
    BY EmptySeq DEF Init
  <2>4. /\ stop \in BOOLEAN /\ transferStop \in BOOLEAN
        /\ eof \in BOOLEAN /\ ending \in BOOLEAN
        /\ pc \in {"created", "read", "frame", "dummy", "write", "burst", "status", "done"}
    BY DEF Init
  <2>5. /\ idle \in Nat /\ counter \in 0 .. CounterValues - 1 /\ pad \in 0 .. Delay
        /\ phase \in 0 .. Decimation - 1 /\ chunkSize \in 0 .. SamplesSize
        /\ burst \in 0 .. MTU
    BY SamplesSizeNat DEF Init
  <2> QED BY <1>1, <2>1, <2>2, <2>3, <2>4, <2>5 DEF TypeOK
<1>3. IsPrefix(<<>>, <<>>) /\ <<>> \o <<>> = <<>>
  BY EmptySeq, ConcatEmptySeq DEF IsPrefix
<1>4. StreamIntact
  BY <1>3 DEF Init, StreamIntact
<1> QED BY <1>2, <1>4 DEF Init, IInv

(* A step that only changes the program counter, the counters of the loops  *)
(* and the stop flags once the transfer runs leaves the streams as they are.*)
LEMMA QuietStep ==
  ASSUME IInv, UNCHANGED <<chunk, air, dump>>,
         \/ pc = "created"
         \/ Stopped => Stopped'
  PROVE  StreamIntact'
<1>1. CASE pc = "created"
  <2>1. air' = <<>> /\ dump' = <<>> /\ chunk' = <<>>
    BY <1>1 DEF IInv
  <2>2. IsPrefix(<<>>, <<>>) /\ <<>> \o <<>> = <<>>
    BY EmptySeq, ConcatEmptySeq DEF IsPrefix
  <2> QED BY <2>1, <2>2 DEF StreamIntact
<1>2. CASE Stopped => Stopped'
  BY <1>2 DEF IInv, StreamIntact
<1> QED BY <1>1, <1>2

(* What a partial write moves from one sequence to the end of another. *)
LEMMA PartialWrite ==
  ASSUME NEW S, NEW a \in Seq(S), NEW c \in Seq(S), NEW r \in 0 .. Len(c)
  PROVE  LET written == SubSeq(c, 1, r)
             rest == SubSeq(c, r + 1, Len(c))
         IN  /\ a \o written \in Seq(S)
             /\ rest \in Seq(S)
             /\ (a \o written) \o rest = a \o c
             /\ IsPrefix(a \o written, a \o c)
<1> DEFINE written == SubSeq(c, 1, r)
           rest == SubSeq(c, r + 1, Len(c))
<1>1. written \in Seq(S) /\ rest \in Seq(S) /\ written \o rest = c
  BY Cut
<1> HIDE DEF written, rest
<1>2. a \o written \in Seq(S)
  BY <1>1, ConcatProperties
<1>3. (a \o written) \o rest = a \o (written \o rest)
  <2>1. ASSUME NEW w \in Seq(S), NEW t \in Seq(S)
        PROVE  (a \o w) \o t = a \o (w \o t)
    BY ConcatAssociative
  <2> QED BY <1>1, <2>1
<1>4. IsPrefix(a \o written, (a \o written) \o rest)
  BY <1>1, <1>2, PrefixOfConcat
<1>5. (a \o written) \o rest = a \o c
  BY <1>1, <1>3
<1>6. IsPrefix(a \o written, a \o c)
  BY <1>4, <1>5
<1> QED BY <1>1, <1>2, <1>5, <1>6 DEF written, rest

(* A partial write moves samples from the buffer to the radio. *)
LEMMA WriteStreamStep ==
  ASSUME IInv, NEW r \in 1 .. Len(chunk), WriteStream(r)
  PROVE  IInv'
<1>1. /\ chunk \in Seq(SampleSet) /\ air \in Seq(SampleSet)
      /\ air \o chunk = dump /\ r \in 0 .. Len(chunk)
  BY DEF IInv, TypeOK, StreamIntact, WriteStream
<1>2. /\ air' = air \o SubSeq(chunk, 1, r)
      /\ chunk' = SubSeq(chunk, r + 1, Len(chunk))
      /\ dump' = dump
  BY DEF WriteStream
<1>3. /\ air' \in Seq(SampleSet) /\ chunk' \in Seq(SampleSet)
      /\ air' \o chunk' = dump' /\ IsPrefix(air', dump')
  BY <1>1, <1>2, PartialWrite
<1>4. StreamIntact'
  BY <1>3 DEF StreamIntact
<1>5. TypeOK'
  BY <1>3 DEF IInv, TypeOK, WriteStream, sourceVars, readVars, generatorVars
<1>6. pc = "write" /\ pc' = pc /\ pad' = pad /\ Radio = "SOAPYSDR"
  BY DEF IInv, WriteStream, generatorVars
<1> QED BY <1>4, <1>5, <1>6 DEF IInv

(***************************************************************************)
(* The streams of a transfer are well formed and intact at all times.       *)
(***************************************************************************)
LEMMA NextIInv == IInv /\ [Next]_vars => IInv'
<1> SUFFICES ASSUME IInv, [Next]_vars PROVE IInv'
  OBVIOUS
<1> USE SamplesAssumption, SendAssumption
    DEF sourceVars, readVars, generatorVars, radioVars
<1>1. CASE Start
  <2>1. StreamIntact'
    BY <1>1, QuietStep DEF Start
  <2> QED BY <1>1, <2>1 DEF Start, IInv, TypeOK
<1>2. CASE LeaveLoop
  <2>1. StreamIntact'
    BY <1>2, QuietStep DEF LeaveLoop, Stopped
  <2> QED BY <1>2, <2>1 DEF LeaveLoop, FlushLength, IInv, TypeOK
<1>3. CASE ReadPayload
  <2> DEFINE n == Least(PayloadSize, avail - pos)
  <2>1. n \in 1 .. DataSize /\ pos + n <= avail /\ pos \in Nat
    BY <1>3 DEF ReadPayload, Least, IInv, TypeOK
  <2>2. /\ pos' = pos + n /\ sent' = Append(sent, Units(pos, n))
        /\ frame' = FrameSamples(Header(Id, counter), Units(pos, n))
        /\ eof' = (closed /\ n < PayloadSize)
    BY <1>3 DEF ReadPayload
  <2> HIDE DEF n
  <2>3. Units(pos, n) \in Seq(1 .. DataSize)
    BY <2>1, UnitsType DEF IInv, TypeOK
  <2>4. frame' \in Seq(SampleSet)
    BY <2>2, <2>3, FrameType DEF IInv, TypeOK
  <2>5. sent' \in Seq(Seq(1 .. DataSize))
    BY <2>2, <2>3, AppendProperties DEF IInv, TypeOK
  <2>6. pos' \in 0 .. avail' /\ eof' \in BOOLEAN
    BY <1>3, <2>1, <2>2 DEF ReadPayload, IInv, TypeOK
  <2>7. StreamIntact'
    BY <1>3, QuietStep DEF ReadPayload, Stopped
  <2> QED BY <1>3, <2>4, <2>5, <2>6, <2>7 DEF ReadPayload, IInv, TypeOK
<1>4. CASE ReadNothing
  <2>1. StreamIntact'
    BY <1>4, QuietStep DEF ReadNothing, Stopped
  <2> QED BY <1>4, <2>1 DEF ReadNothing, FlushLength, IInv, TypeOK
<1>5. CASE SendBlock
  <2> DEFINE n == Least(BlockSize, Len(frame))
  <2>1. frame \in Seq(SampleSet) /\ n \in 0 .. Len(frame) /\ n <= BlockSize
    BY DEF IInv, TypeOK, Least
  <2>2. /\ frame' = SubSeq(frame, n + 1, Len(frame)) /\ pc = "frame"
        /\ Transmit(SubSeq(frame, 1, n))
        /\ UNCHANGED <<pad, ending, stop, transferStop, sourceVars, readVars>>
        /\ counter' \in {counter, (counter + 1) % CounterValues}
    BY <1>5 DEF SendBlock
  <2> HIDE DEF n
  <2>3. /\ SubSeq(frame, 1, n) \in Seq(SampleSet) /\ frame' \in Seq(SampleSet)
        /\ Len(SubSeq(frame, 1, n)) <= BlockSize + Delay
    BY <2>1, <2>2, Cut
  <2>4. counter' \in 0 .. CounterValues - 1 /\ pad' \in 0 .. Delay
    <3>1. counter \in 0 .. CounterValues - 1 /\ pad' \in 0 .. Delay
      BY <2>2 DEF IInv, TypeOK
    <3>2. (counter + 1) % CounterValues \in 0 .. CounterValues - 1
      BY <3>1, Division
    <3> QED BY <2>2, <3>1, <3>2
  <2> QED BY <2>2, <2>3, <2>4, TransmitStep
<1>6. CASE SendDummy
  <2>1. /\ pc = "dummy" /\ pad' = pad - 1 /\ Transmit(<<Zero>>)
        /\ UNCHANGED <<frame, counter, ending, stop, transferStop, sourceVars, readVars>>
    BY <1>6 DEF SendDummy
  <2>2. pad' \in 0 .. Delay /\ frame' \in Seq(SampleSet) /\ counter' \in 0 .. CounterValues - 1
    BY <2>1 DEF IInv, TypeOK
  <2>3. Len(<<Zero>>) <= BlockSize + Delay
    OBVIOUS
  <2> QED BY <2>1, <2>2, <2>3, ZeroType, TransmitStep
<1>7. CASE WriteDone
  <2>1. CASE chunk = <<>>
    <3>1. StreamIntact'
      BY <1>7, <2>1, QuietStep DEF WriteDone, Stopped
    <3> QED BY <1>7, <2>1, <3>1 DEF WriteDone, Caller, IInv, TypeOK
  <2>2. CASE Stopped
    <3>1. StreamIntact'
      BY <1>7, <2>2 DEF WriteDone, Stopped, IInv, StreamIntact
    <3> QED BY <1>7, <2>2, <3>1, EmptySeq DEF WriteDone, Caller, IInv, TypeOK
  <2> QED BY <1>7, <2>1, <2>2 DEF WriteDone
<1>8. CASE BurstDone
  <2>1. StreamIntact'
    BY <1>8, QuietStep DEF BurstDone, Stopped
  <2> QED BY <1>8, <2>1 DEF BurstDone, IInv, TypeOK
<1>9. ASSUME NEW r \in {"TIMEOUT", "UNDERFLOW"}, ReadStreamStatus(r)
      PROVE  IInv'
  <2>1. StreamIntact'
    BY <1>9, QuietStep DEF ReadStreamStatus, Stopped
  <2> QED BY <1>9, <2>1 DEF ReadStreamStatus, IInv, TypeOK
<1>10. ASSUME NEW r \in 1 .. Len(chunk), WriteStream(r)
       PROVE  IInv'
  BY <1>10, WriteStreamStep
<1>11. ASSUME NEW r \in 1 .. BurstChunk, WriteBurst(r)
       PROVE  IInv'
  <2>1. StreamIntact'
    BY <1>11, QuietStep DEF WriteBurst, Stopped
  <2>2. burst' \in 0 .. MTU
    BY <1>11 DEF WriteBurst, BurstChunk, Least, IInv, TypeOK
  <2> QED BY <1>11, <2>1, <2>2 DEF WriteBurst, IInv, TypeOK
<1>12. CASE Environment
  <2>1. StreamIntact'
    BY <1>12, QuietStep
    DEF Environment, StopAll, StopTransfer, Produce, CloseSource, Stopped
  <2>2. TypeOK'
    <3>1. CASE StopAll \/ StopTransfer
      BY <3>1 DEF StopAll, StopTransfer, IInv, TypeOK
    <3>2. CASE Produce
      BY <3>2 DEF Produce, IInv, TypeOK
    <3>3. CASE CloseSource
      BY <3>3 DEF CloseSource, IInv, TypeOK
    <3> QED BY <1>12, <3>1, <3>2, <3>3 DEF Environment
  <2> QED BY <1>12, <2>1, <2>2
      DEF Environment, StopAll, StopTransfer, Produce, CloseSource, IInv
<1>13. CASE UNCHANGED vars
  <2>1. StreamIntact'
    BY <1>13, QuietStep DEF vars, Stopped
  <2> QED BY <1>13, <2>1 DEF vars, IInv, TypeOK
<1>14. CASE Returned
  BY <1>13, <1>14 DEF Returned
<1> QED
  BY <1>1, <1>2, <1>3, <1>4, <1>5, <1>6, <1>7, <1>8, <1>9, <1>10, <1>11,
     <1>12, <1>13, <1>14
  DEF Next, ThreadStep, RadioStep

THEOREM AlwaysIInv == Spec => []IInv
  BY InitIInv, NextIInv, PTL DEF Spec

(* The buffers, counters and indexes of send_frames() keep their ranges:    *)
(* what the resampler gives fits in the buffer made for it,                 *)
(* no write goes past the end of a buffer, the counter of the final burst   *)
(* (unsigned in the code) does not go below zero.                           *)
THEOREM TypeCorrect == Spec => []TypeOK
<1>1. IInv => TypeOK
  BY DEF IInv
<1> QED BY <1>1, AlwaysIInv, PTL

(* What the radio has accepted has no hole, no repetition and no reordering,*)
(* for every sequence of partial writes and every moment of a stop.         *)
THEOREM StreamAlwaysIntact == Spec => []StreamIntact
<1>1. IInv => StreamIntact
  BY DEF IInv
<1> QED BY <1>1, AlwaysIInv, PTL
-----------------------------------------------------------------------------
LEMMA SeqFromFunction ==
  ASSUME NEW T, NEW n \in Nat, NEW F \in [1 .. n -> T]
  PROVE  F \in Seq(T) /\ Len(F) = n
  OBVIOUS

(* What is not zero in a sequence. *)

LEMMA SignalEmpty == Signal(<<>>) = <<>>
<1>1. [i \in DOMAIN <<>> |-> IF <<>>[i] = Zero THEN <<>> ELSE <<(<<>>)[i]>>] = <<>>
  OBVIOUS
<1> QED BY <1>1, FlattenEmpty DEF Signal

LEMMA SignalAppend ==
  ASSUME NEW S, NEW s \in Seq(S), NEW x \in S
  PROVE  /\ Signal(s) \in Seq(S)
         /\ Signal(Append(s, x)) = Signal(s) \o (IF x = Zero THEN <<>> ELSE <<x>>)
<1> DEFINE Part(y) == IF y = Zero THEN <<>> ELSE <<y>>
           more == Append(s, x)
           parts == [i \in DOMAIN s |-> Part(s[i])]
           moreParts == [i \in DOMAIN more |-> Part(more[i])]
<1>1. \A y \in S : Part(y) \in Seq(S)
  OBVIOUS
<1>2. parts \in Seq(Seq(S))
  <2>1. \A i \in 1 .. Len(s) : s[i] \in S
    BY ElementOfSeq
  <2>2. \A i \in 1 .. Len(s) : Part(s[i]) \in Seq(S)
    BY <1>1, <2>1
  <2>3. DOMAIN s = 1 .. Len(s) /\ Len(s) \in Nat
    OBVIOUS
  <2> HIDE DEF Part
  <2> QED BY <2>2, <2>3
<1>3. moreParts = Append(parts, Part(x))
  OBVIOUS
<1> HIDE DEF Part
<1>4. FlattenSeq(parts) \in Seq(S) /\ FlattenSeq(Append(parts, Part(x))) = FlattenSeq(parts) \o Part(x)
  BY <1>1, <1>2, FlattenFacts
<1> QED BY <1>3, <1>4 DEF Signal, Part

LEMMA SignalConcat ==
  ASSUME NEW S, NEW s \in Seq(S), NEW t \in Seq(S)
  PROVE  Signal(s \o t) = Signal(s) \o Signal(t)
<1> DEFINE P == {u \in Seq(S) : Signal(s \o u) = Signal(s) \o Signal(u)}
<1>1. \A u \in Seq(S) : Signal(u) \in Seq(S)
  <2>1. CASE S = {}
    <3>1. \A u \in Seq(S) : u = <<>>
      BY <2>1
    <3> QED BY <3>1, SignalEmpty
  <2>2. CASE S # {}
    BY <2>2, SignalAppend
  <2> QED BY <2>1, <2>2
<1>2. <<>> \in P
  <2>1. s \o <<>> = s /\ Signal(s) \o <<>> = Signal(s)
    BY <1>1, ConcatEmptySeq
  <2>2. Signal(s \o <<>>) = Signal(s) \o Signal(<<>>)
    BY <2>1, SignalEmpty
  <2> QED BY <2>2, EmptySeq
<1>3. ASSUME NEW u \in P, NEW x \in S PROVE Append(u, x) \in P
  <2> DEFINE part == IF x = Zero THEN <<>> ELSE <<x>>
  <2>1. u \in Seq(S) /\ part \in Seq(S) /\ s \o u \in Seq(S) /\ Append(u, x) \in Seq(S)
    BY ConcatProperties
  <2>2. s \o Append(u, x) = Append(s \o u, x)
    OBVIOUS
  <2>3. Signal(Append(s \o u, x)) = Signal(s \o u) \o part
    BY <2>1, SignalAppend
  <2>4. Signal(Append(u, x)) = Signal(u) \o part
    BY <2>1, SignalAppend
  <2>5. Signal(s \o u) = Signal(s) \o Signal(u)
    OBVIOUS
  <2> HIDE DEF part
  <2>6. (Signal(s) \o Signal(u)) \o part = Signal(s) \o (Signal(u) \o part)
    <3>1. Signal(s) \in Seq(S) /\ Signal(u) \in Seq(S)
      BY <1>1, <2>1
    <3> QED BY <2>1, <3>1, ConcatAssociative
  <2> QED BY <2>1, <2>2, <2>3, <2>4, <2>5, <2>6
<1>4. P = Seq(S)
  <2> HIDE DEF P
  <2>1. P \in SUBSET Seq(S)
    BY DEF P
  <2> QED BY <1>2, <1>3, <2>1, SeqInduction
<1> QED BY <1>4

(* Nothing is left of zeros, and all of what has none. *)
LEMMA SignalOfZeros ==
  ASSUME NEW S, NEW s \in Seq(S), \A i \in 1 .. Len(s) : s[i] = Zero
  PROVE  Signal(s) = <<>>
<1> DEFINE Zeros(u) == \A i \in 1 .. Len(u) : u[i] = Zero
           P == {u \in Seq(S) : Zeros(u) => Signal(u) = <<>>}
<1>1. <<>> \in P
  BY SignalEmpty
<1>2. ASSUME NEW u \in P, NEW x \in S PROVE Append(u, x) \in P
  <2>0. Append(u, x) \in Seq(S)
    OBVIOUS
  <2> SUFFICES ASSUME Zeros(Append(u, x)) PROVE Signal(Append(u, x)) = <<>>
    <3> HIDE DEF Zeros
    <3> QED BY <2>0
  <2>1. Zeros(u) /\ x = Zero
    <3>1. /\ Len(Append(u, x)) = Len(u) + 1 /\ Append(u, x)[Len(u) + 1] = x
          /\ \A i \in 1 .. Len(u) : Append(u, x)[i] = u[i] /\ i \in 1 .. Len(u) + 1
          /\ Len(u) + 1 \in 1 .. Len(u) + 1
      OBVIOUS
    <3> QED BY <3>1
  <2>2. Signal(Append(u, x)) = Signal(u) \o <<>>
    BY <2>1, SignalAppend
  <2>3. Signal(u) = <<>>
    BY <2>1
  <2> QED BY <2>2, <2>3
<1>3. P = Seq(S)
  <2> HIDE DEF P
  <2>1. P \in SUBSET Seq(S)
    BY DEF P
  <2> QED BY <1>1, <1>2, <2>1, SeqInduction
<1> QED BY <1>3

LEMMA SignalOfSignal ==
  ASSUME NEW S, NEW s \in Seq(S), \A i \in 1 .. Len(s) : s[i] # Zero
  PROVE  Signal(s) = s
<1> DEFINE NoZero(u) == \A i \in 1 .. Len(u) : u[i] # Zero
           P == {u \in Seq(S) : NoZero(u) => Signal(u) = u}
<1>1. <<>> \in P
  BY SignalEmpty
<1>2. ASSUME NEW u \in P, NEW x \in S PROVE Append(u, x) \in P
  <2>0. Append(u, x) \in Seq(S)
    OBVIOUS
  <2> SUFFICES ASSUME NoZero(Append(u, x)) PROVE Signal(Append(u, x)) = Append(u, x)
    <3> HIDE DEF NoZero
    <3> QED BY <2>0
  <2>1. NoZero(u) /\ x # Zero
    <3>1. /\ Len(Append(u, x)) = Len(u) + 1 /\ Append(u, x)[Len(u) + 1] = x
          /\ \A i \in 1 .. Len(u) : Append(u, x)[i] = u[i] /\ i \in 1 .. Len(u) + 1
          /\ Len(u) + 1 \in 1 .. Len(u) + 1
      OBVIOUS
    <3> QED BY <3>1
  <2>2. Signal(Append(u, x)) = Signal(u) \o <<x>>
    BY <2>1, SignalAppend
  <2>3. Signal(u) = u
    BY <2>1
  <2> QED BY <2>2, <2>3
<1>3. P = Seq(S)
  <2> HIDE DEF P
  <2>1. P \in SUBSET Seq(S)
    BY DEF P
  <2> QED BY <1>1, <1>2, <2>1, SeqInduction
<1> QED BY <1>3
-----------------------------------------------------------------------------
(* The second inductive invariant, for the frames. *)

(* What is idle where: a frame is in progress only in its own loop, zeros   *)
(* are pending only out of it, and the main loop ends on a stop or when all *)
(* has been read.                                                           *)
PlaceInv ==
  /\ frame # <<>> => pc \in {"frame", "write"} /\ pad = 0 /\ ~ending
  /\ pc = "frame" => frame # <<>>
  /\ pc \in {"created", "read"} => pad = 0 /\ ~ending
  /\ pc \in {"burst", "status", "done"} => pad = 0 /\ ending
  /\ ending => eof \/ Stopped
  /\ eof => closed /\ pos = avail

(* The zeros of send_dummy_samples() that have been sent are the last       *)
(* samples in the filter.                                                   *)
FlushInv == pad > 0 \/ ending => \A i \in pad + 1 .. Delay : line[i] = Zero

(* The frame in progress has not been counted. *)
CounterInv ==
  /\ frame # <<>> => sent # <<>>
  /\ counter = (IF frame = <<>> THEN Len(sent) ELSE Len(sent) - 1) % CounterValues

(* What has been made for the radio, and what the resampler will make of    *)
(* the samples in its filter and of the rest of the current frame.          *)
Made == MadeOf(dump, phase, line \o frame)

(* These are all the frames; there is nothing left in the filter on return. *)
FramesInv == Transmitted(Made)

CompleteInv == PlaceInv /\ FlushInv /\ CounterInv /\ FramesInv

LEMMA SignalType ==
  ASSUME NEW S, NEW s \in Seq(S)
  PROVE  Signal(s) \in Seq(S)
<1>1. CASE S = {}
  <2>1. s = <<>>
    BY <1>1
  <2> QED BY <2>1, SignalEmpty
<1>2. CASE S # {}
  BY <1>2, SignalAppend
<1> QED BY <1>1, <1>2

(* Zeros leave the resampler as zeros. *)
LEMMA ResampledZeros ==
  ASSUME NEW S, NEW s \in Seq(S), \A i \in 1 .. Len(s) : s[i] = Zero,
         NEW ph \in 0 .. Decimation - 1
  PROVE  \A j \in 1 .. Len(Resample(ph, s)) : Resample(ph, s)[j] = Zero
<1>1. Len(s) \in Nat
  OBVIOUS
<1>2. OutputLen(ph, Len(s)) \in Nat
  <2>1. ph + Len(s) * Interpolation \in Nat
    BY <1>1, SamplesAssumption
  <2> QED BY <2>1, Division, SamplesAssumption DEF OutputLen
<1>3. \A j \in 1 .. OutputLen(ph, Len(s)) : s[Position(ph, j)] = Zero
  BY <1>1, PositionInBlock
<1> QED BY <1>2, <1>3 DEF Resample

LEMMA ZerosResampled ==
  ASSUME NEW S, NEW s \in Seq(S), \A i \in 1 .. Len(s) : s[i] = Zero,
         NEW ph \in 0 .. Decimation - 1
  PROVE  Signal(Resample(ph, s)) = <<>>
BY ResampleType, ResampledZeros, SignalOfZeros

(* What has no zero has none when it is resampled. *)
LEMMA NoZeroResampled ==
  ASSUME NEW S, NEW f \in Seq(S), \A i \in 1 .. Len(f) : f[i] # Zero,
         NEW ph \in 0 .. Decimation - 1
  PROVE  \A j \in 1 .. Len(Resample(ph, f)) : Resample(ph, f)[j] # Zero
<1>1. Len(f) \in Nat
  OBVIOUS
<1>2. OutputLen(ph, Len(f)) \in Nat
  <2>1. ph + Len(f) * Interpolation \in Nat
    BY <1>1, SamplesAssumption
  <2> QED BY <2>1, Division, SamplesAssumption DEF OutputLen
<1>3. \A j \in 1 .. OutputLen(ph, Len(f)) : f[Position(ph, j)] # Zero
  BY <1>1, PositionInBlock
<1> QED BY <1>2, <1>3 DEF Resample

(* t begins with s. *)
Extends(s, t) ==
  /\ Len(s) \in Nat /\ Len(t) \in Nat /\ Len(s) <= Len(t)
  /\ \A k \in 1 .. Len(s) : t[k] = s[k]

LEMMA WithinExtends ==
  ASSUME NEW s, NEW t, Extends(s, t), NEW part, Len(part) \in Nat, Within(part, s)
  PROVE  Within(part, t)
<1>1. PICK at \in 0 .. Len(s) - Len(part) : \A k \in 1 .. Len(part) : s[at + k] = part[k]
  BY DEF Within
<1>2. at \in 0 .. Len(t) - Len(part)
  BY DEF Extends
<1>3. ASSUME NEW k \in 1 .. Len(part) PROVE t[at + k] = part[k]
  <2>1. at + k \in 1 .. Len(s)
    BY DEF Extends
  <2> QED BY <1>1, <2>1 DEF Extends
<1> QED BY <1>2, <1>3 DEF Within

LEMMA JoinsExtends ==
  ASSUME NEW S, NEW s \in Seq(S), NEW t \in Seq(S), NEW all, Joins(all, s, t)
  PROVE  Extends(s, all) /\ Within(t, all)
<1>1. Len(s) \in Nat /\ Len(t) \in Nat
  OBVIOUS
<1>2. Len(all) = Len(s) + Len(t)
  BY JoinsFacts
<1>3. \A k \in 1 .. Len(s) : all[k] = s[k]
  BY JoinsFacts
<1>4. \A k \in 1 .. Len(t) : all[Len(s) + k] = t[k]
  BY JoinsFacts
<1>5. Extends(s, all)
  BY <1>1, <1>2, <1>3 DEF Extends
<1>6. Within(t, all)
  <2>1. Len(s) \in 0 .. Len(all) - Len(t)
    BY <1>1, <1>2
  <2> QED BY <1>4, <2>1 DEF Within
<1> QED BY <1>5, <1>6

(* What is not zero is within the part of a stream that comes before its    *)
(* last zeros.                                                              *)
LEMMA WithinBeforeZeros ==
  ASSUME NEW S, NEW s \in Seq(S), NEW z \in Seq(S), NEW all, Joins(all, s, z),
         \A i \in 1 .. Len(z) : z[i] = Zero,
         NEW part, Len(part) \in Nat, \A k \in 1 .. Len(part) : part[k] # Zero,
         Within(part, all)
  PROVE  Within(part, s)
<1>1. Len(s) \in Nat /\ Len(z) \in Nat
  OBVIOUS
<1>2. Len(all) = Len(s) + Len(z)
  BY JoinsFacts
<1>3. \A k \in 1 .. Len(s) : all[k] = s[k]
  BY JoinsFacts
<1>4. \A k \in 1 .. Len(z) : all[Len(s) + k] = z[k]
  BY JoinsFacts
<1>5. PICK at \in 0 .. Len(all) - Len(part) : \A k \in 1 .. Len(part) : all[at + k] = part[k]
  BY DEF Within
<1>6. CASE Len(part) = 0
  <2>1. 0 \in 0 .. Len(s) - Len(part)
    BY <1>1, <1>6
  <2>2. \A k \in 1 .. Len(part) : s[0 + k] = part[k]
    BY <1>6
  <2> QED BY <2>1, <2>2 DEF Within
<1>7. CASE Len(part) # 0
  <2>1. Len(part) \in 1 .. Len(part) /\ at \in Nat
    BY <1>2, <1>5, <1>7
  <2>2. at + Len(part) <= Len(s)
    <3>1. SUFFICES ASSUME at + Len(part) > Len(s) PROVE FALSE
      BY <1>1, <2>1
    <3>2. PICK k \in 1 .. Len(z) : at + Len(part) = Len(s) + k
      <4>1. at + Len(part) - Len(s) \in 1 .. Len(z)
        BY <1>1, <1>2, <1>5, <2>1, <3>1
      <4>2. at + Len(part) = Len(s) + (at + Len(part) - Len(s))
        BY <1>1, <2>1
      <4> QED BY <4>1, <4>2
    <3>3. all[Len(s) + k] = Zero
      BY <1>4, <3>2
    <3>4. all[at + Len(part)] # Zero
      BY <1>5, <2>1
    <3> QED BY <3>2, <3>3, <3>4
  <2>3. at \in 0 .. Len(s) - Len(part)
    BY <1>1, <2>1, <2>2
  <2>4. ASSUME NEW k \in 1 .. Len(part) PROVE s[at + k] = part[k]
    <3>1. at + k \in 1 .. Len(s)
      BY <1>1, <2>1, <2>2
    <3> QED BY <1>3, <1>5, <3>1
  <2> QED BY <2>3, <2>4 DEF Within
<1> QED BY <1>6, <1>7

(* Where the parentheses are does not matter. *)
LEMMA Regroup ==
  ASSUME NEW S, NEW d \in Seq(S), NEW x \in Seq(S), NEW y \in Seq(S)
  PROVE  Joins(d \o (x \o y), d \o x, y)
BY ConcatAssociative DEF Joins

(* More zeros add nothing. *)
LEMMA SilenceAdds ==
  ASSUME NEW S, NEW d \in Seq(S), NEW l \in Seq(S), NEW s \in Seq(S),
         \A i \in 1 .. Len(s) : s[i] = Zero, NEW ph \in 0 .. Decimation - 1
  PROVE  \A all : Joins(all, l, s) =>
           /\ Signal(MadeOf(d, ph, all)) = Signal(MadeOf(d, ph, l))
           /\ Extends(MadeOf(d, ph, l), MadeOf(d, ph, all))
<1> DEFINE a == Resample(ph, l)
           next == NextPhase(ph, Len(l))
           b == Resample(next, s)
<1>1. Resample(ph, l \o s) = a \o b
  BY ResampleConcat
<1>2. next \in 0 .. Decimation - 1 /\ a \in Seq(S)
  BY ResampleType
<1>3. b \in Seq(S) /\ Signal(b) = <<>>
  BY <1>2, ResampleType, ZerosResampled
<1> HIDE DEF a, b, next
<1>4. d \o (a \o b) = (d \o a) \o b
  <2>1. Joins(d \o (a \o b), d \o a, b)
    BY <1>2, <1>3, Regroup
  <2> QED BY <2>1 DEF Joins
<1>5. d \o a \in Seq(S)
  BY <1>2, ConcatProperties
<1>6. Signal((d \o a) \o b) = Signal(d \o a) \o Signal(b)
  BY <1>3, <1>5, SignalConcat
<1>7. Signal(d \o a) \in Seq(S)
  BY <1>5, SignalType
<1>8. Signal(d \o a) \o <<>> = Signal(d \o a)
  BY <1>7, ConcatEmptySeq
<1>9. Extends(d \o a, (d \o a) \o b)
  <2>1. Joins((d \o a) \o b, d \o a, b)
    BY DEF Joins
  <2> QED BY <1>3, <1>5, <2>1, JoinsExtends
<1> QED BY <1>1, <1>3, <1>4, <1>6, <1>8, <1>9 DEF a, MadeOf, Joins

(* A frame adds itself, resampled. *)
LEMMA FrameAdds ==
  ASSUME NEW S, NEW d \in Seq(S), NEW l \in Seq(S), NEW f \in Seq(S),
         \A i \in 1 .. Len(f) : f[i] # Zero, NEW ph \in 0 .. Decimation - 1
  PROVE  /\ NextPhase(ph, Len(l)) \in 0 .. Decimation - 1
         /\ \A all : Joins(all, l, f) =>
              /\ Joins(Signal(MadeOf(d, ph, all)), Signal(MadeOf(d, ph, l)),
                       Resample(NextPhase(ph, Len(l)), f))
              /\ Extends(MadeOf(d, ph, l), MadeOf(d, ph, all))
              /\ Within(Resample(NextPhase(ph, Len(l)), f), MadeOf(d, ph, all))
<1> DEFINE a == Resample(ph, l)
           next == NextPhase(ph, Len(l))
           b == Resample(next, f)
<1>1. Resample(ph, l \o f) = a \o b
  BY ResampleConcat
<1>2. next \in 0 .. Decimation - 1 /\ a \in Seq(S)
  BY ResampleType
<1>3. b \in Seq(S)
  BY <1>2, ResampleType
<1>4. Signal(b) = b
  <2>1. \A j \in 1 .. Len(b) : b[j] # Zero
    BY <1>2, NoZeroResampled
  <2> QED BY <1>3, <2>1, SignalOfSignal
<1> HIDE DEF a, b, next
<1>5. d \o (a \o b) = (d \o a) \o b
  <2>1. Joins(d \o (a \o b), d \o a, b)
    BY <1>2, <1>3, Regroup
  <2> QED BY <2>1 DEF Joins
<1>6. d \o a \in Seq(S)
  BY <1>2, ConcatProperties
<1>7. Signal((d \o a) \o b) = Signal(d \o a) \o Signal(b)
  BY <1>3, <1>6, SignalConcat
<1>8. Extends(d \o a, (d \o a) \o b) /\ Within(b, (d \o a) \o b)
  <2>1. Joins((d \o a) \o b, d \o a, b)
    BY DEF Joins
  <2> QED BY <1>3, <1>6, <2>1, JoinsExtends
<1> QED BY <1>1, <1>2, <1>4, <1>5, <1>7, <1>8 DEF a, b, next, MadeOf, Joins
-----------------------------------------------------------------------------
(* The frames assembled so far. *)
LEMMA FramesType ==
  ASSUME TypeOK, NEW i \in 1 .. Len(sent)
  PROVE  FrameOf(i) \in Seq(SampleSet)
<1>1. sent \in Seq(Seq(1 .. DataSize))
  BY DEF TypeOK
<1>2. sent[i] \in Seq(1 .. DataSize)
  BY <1>1, ElementOfSeq
<1>3. (i - 1) % CounterValues \in 0 .. CounterValues - 1
  <2>1. i - 1 \in Nat /\ CounterValues \in Nat \ {0}
    BY <1>1, SendAssumption
  <2> QED BY <2>1, Division
<1> QED BY <1>2, <1>3, FrameType DEF FrameOf

(* No sample of a frame is zero. *)
LEMMA FrameNotZero ==
  ASSUME NEW h, NEW payload, Len(payload) \in Nat
  PROVE  /\ \A k \in 1 .. Len(FrameSamples(h, payload)) : FrameSamples(h, payload)[k] # Zero
         /\ FrameSamples(h, payload) # <<>>
<1> USE SamplesAssumption
<1>1. HeaderLen + Len(payload) \in Nat /\ HeaderLen + Len(payload) > 0
  OBVIOUS
<1>2. \A k : <<h, payload, k>> # Zero
  <2> TAKE k
  <2>1. Len(<<h, payload, k>>) = 3 /\ Len(Zero) = 0
    BY DEF Zero
  <2> QED BY <2>1
<1> QED BY <1>1, <1>2 DEF FrameSamples

LEMMA ResampledLength ==
  ASSUME TypeOK, NEW i \in DOMAIN sent, NEW p \in 0 .. Decimation - 1
  PROVE  Len(Resample(p, FrameOf(i))) \in Nat
<1>1. i \in 1 .. Len(sent)
  BY DEF TypeOK
<1>2. FrameOf(i) \in Seq(SampleSet)
  BY <1>1, FramesType
<1>3. Resample(p, FrameOf(i)) \in Seq(SampleSet)
  BY <1>2, ResampleType
<1> QED BY <1>3

(* What one more frame adds. *)
LEMMA FrameMade ==
  ASSUME TypeOK, frame = <<>>, NEW f \in Seq(SampleSet),
         \A k \in 1 .. Len(f) : f[k] # Zero
  PROVE  /\ NextPhase(phase, Len(line)) \in 0 .. Decimation - 1
         /\ Signal(MadeOf(dump, phase, line \o f))
              = Signal(Made) \o Resample(NextPhase(phase, Len(line)), f)
         /\ Extends(Made, MadeOf(dump, phase, line \o f))
         /\ Within(Resample(NextPhase(phase, Len(line)), f), MadeOf(dump, phase, line \o f))
<1>1. dump \in Seq(SampleSet) /\ line \in Seq(SampleSet) /\ phase \in 0 .. Decimation - 1
  BY DEF TypeOK
<1>2. Made = MadeOf(dump, phase, line)
  <2>1. line \o <<>> = line
    BY <1>1, ConcatEmptySeq
  <2> QED BY <2>1 DEF Made
<1> DEFINE all == line \o f
<1>3. Joins(all, line, f)
  BY DEF Joins
<1> HIDE DEF all
<1>4. /\ NextPhase(phase, Len(line)) \in 0 .. Decimation - 1
      /\ Joins(Signal(MadeOf(dump, phase, all)), Signal(MadeOf(dump, phase, line)),
               Resample(NextPhase(phase, Len(line)), f))
      /\ Extends(MadeOf(dump, phase, line), MadeOf(dump, phase, all))
      /\ Within(Resample(NextPhase(phase, Len(line)), f), MadeOf(dump, phase, all))
  BY <1>1, <1>3, FrameAdds
<1> QED BY <1>2, <1>4 DEF Joins, all

LEMMA OneMoreFrame ==
  ASSUME IInv, FramesInv, frame = <<>>, NEW f \in Seq(SampleSet),
         \A k \in 1 .. Len(f) : f[k] # Zero,
         UNCHANGED <<dump, line, phase>>, frame' = f,
         NEW payload \in Seq(1 .. DataSize), sent' = Append(sent, payload),
         f = FrameSamples(Header(Id, Len(sent) % CounterValues), payload)
  PROVE  FramesInv'
<1>0. PICK N \in Nat : N = Len(sent) /\ DOMAIN sent = 1 .. N
  BY DEF IInv, TypeOK
<1>1. /\ sent \in Seq(Seq(1 .. DataSize)) /\ N = Len(sent) /\ DOMAIN sent = 1 .. N
      /\ \A i \in 1 .. N + 1 : i = N + 1 \/ i \in 1 .. N
  <2>1. sent \in Seq(Seq(1 .. DataSize))
    BY DEF IInv, TypeOK
  <2>2. \A i \in 1 .. N + 1 : i = N + 1 \/ i \in 1 .. N
    OBVIOUS
  <2> QED BY <1>0, <2>1, <2>2
<1> DEFINE next == NextPhase(phase, Len(line))
           new == Resample(next, f)
<1>2. PICK ph \in [1 .. N -> 0 .. Decimation - 1] :
        /\ Signal(Made) = FlattenSeq([i \in 1 .. N |-> Resample(ph[i], FrameOf(i))])
        /\ \A i \in 1 .. N : Within(Resample(ph[i], FrameOf(i)), Made)
  BY <1>1 DEF FramesInv, Transmitted
<1>3. /\ next \in 0 .. Decimation - 1
      /\ Signal(MadeOf(dump, phase, line \o f)) = Signal(Made) \o new
      /\ Extends(Made, MadeOf(dump, phase, line \o f))
      /\ Within(new, MadeOf(dump, phase, line \o f))
  BY FrameMade DEF IInv
<1>4. Made' = MadeOf(dump, phase, line \o f)
  BY DEF Made
<1> DEFINE more == [i \in 1 .. N + 1 |-> IF i = N + 1 THEN next ELSE ph[i]]
           old == [i \in 1 .. N |-> Resample(ph[i], FrameOf(i))]
           frames == [i \in 1 .. N + 1 |-> Resample(more[i], FrameOf(i)')]
<1>6. DOMAIN sent' = 1 .. N + 1 /\ more \in [1 .. N + 1 -> 0 .. Decimation - 1]
  <2>1. DOMAIN sent' = 1 .. N + 1
    BY <1>1
  <2>2. \A i \in 1 .. N + 1 : i # N + 1 => i \in 1 .. N
    BY <1>1
  <2> QED BY <1>3, <2>1, <2>2
<1>7. old \in Seq(Seq(SampleSet)) /\ new \in Seq(SampleSet)
  <2>1. ASSUME NEW i \in 1 .. N PROVE Resample(ph[i], FrameOf(i)) \in Seq(SampleSet)
    <3>1. ph[i] \in 0 .. Decimation - 1 /\ FrameOf(i) \in Seq(SampleSet)
      <4>1. ph[i] \in 0 .. Decimation - 1
        BY <1>2
      <4>2. i \in 1 .. Len(sent) /\ TypeOK
        BY <1>1 DEF IInv
      <4> QED BY <4>1, <4>2, FramesType
    <3> QED BY <3>1, ResampleType
  <2>2. new \in Seq(SampleSet)
    BY <1>3, ResampleType
  <2> QED BY <1>1, <2>1, <2>2
<1>8. frames = Append(old, new)
  <2>1. ASSUME NEW i \in 1 .. N PROVE FrameOf(i)' = FrameOf(i)
    <3>1. sent'[i] = sent[i]
      BY <1>1
    <3> QED BY <3>1 DEF FrameOf
  <2>2. FrameOf(N + 1)' = f
    <3>1. sent'[N + 1] = payload /\ (N + 1) - 1 = N
      BY <1>1
    <3>2. FrameOf(N + 1)' = FrameSamples(Header(Id, ((N + 1) - 1) % CounterValues), sent'[N + 1])
      BY DEF FrameOf
    <3>3. f = FrameSamples(Header(Id, N % CounterValues), payload)
      BY <1>1
    <3> QED BY <3>1, <3>2, <3>3
  <2>3. ASSUME NEW i \in 1 .. N PROVE frames[i] = old[i]
    <3>1. i \in 1 .. N + 1 /\ i # N + 1
      BY <1>1
    <3> QED BY <2>1, <3>1
  <2>4. frames[N + 1] = new
    <3>1. N + 1 \in 1 .. N + 1
      BY <1>1
    <3>2. more[N + 1] = next
      BY <3>1
    <3>3. frames[N + 1] = Resample(more[N + 1], FrameOf(N + 1)')
      <4> HIDE DEF more
      <4> QED BY <3>1
    <3> QED BY <2>2, <3>2, <3>3
  <2>5. frames \in Seq(Seq(SampleSet)) /\ Len(frames) = N + 1
    <3>1. \A i \in 1 .. N + 1 : frames[i] \in Seq(SampleSet)
      <4>1. \A i \in 1 .. N : old[i] \in Seq(SampleSet)
        <5>1. Len(old) = N
          BY <1>1
        <5> HIDE DEF old
        <5> QED BY <1>7, <5>1, ElementOfSeq
      <4> HIDE DEF frames, old, new
      <4> QED BY <1>1, <1>7, <2>3, <2>4, <4>1
    <3>2. DOMAIN frames = 1 .. N + 1 /\ frames = [i \in 1 .. N + 1 |-> frames[i]]
      OBVIOUS
    <3> HIDE DEF frames
    <3>3. frames \in [1 .. N + 1 -> Seq(SampleSet)] /\ N + 1 \in Nat
      BY <3>1, <3>2
    <3> QED BY <3>3, SeqFromFunction
  <2>6. Len(old) = N
    BY <1>1
  <2> HIDE DEF frames, old, new
  <2>7. /\ Append(old, new) \in Seq(Seq(SampleSet)) /\ Len(Append(old, new)) = N + 1
        /\ \A i \in 1 .. N : Append(old, new)[i] = old[i]
        /\ Append(old, new)[N + 1] = new
    BY <1>7, <2>6, AppendProperties
  <2>8. \A i \in 1 .. N + 1 : frames[i] = Append(old, new)[i]
    BY <1>1, <2>3, <2>4, <2>7
  <2> QED BY <2>5, <2>7, <2>8, SeqEqual
<1>9. FlattenSeq(Append(old, new)) = FlattenSeq(old) \o new
  <2> HIDE DEF old, new
  <2> QED BY <1>7, FlattenFacts
<1>10. Signal(Made)' = FlattenSeq(frames)
  BY <1>2, <1>3, <1>4, <1>8, <1>9
<1>11. ASSUME NEW i \in 1 .. N + 1 PROVE Within(Resample(more[i], FrameOf(i)'), Made')
  <2>1. Extends(Made, Made') /\ Within(new, Made')
    BY <1>3, <1>4
  <2>2. frames[i] = Resample(more[i], FrameOf(i)')
    <3> HIDE DEF more
    <3> QED OBVIOUS
  <2>3. CASE i = N + 1
    <3>1. Append(old, new)[N + 1] = new
      <4>1. Len(old) = N
        BY <1>1
      <4> HIDE DEF old, new
      <4> QED BY <1>7, <4>1, AppendProperties
    <3> HIDE DEF more, frames, new
    <3> QED BY <1>8, <2>1, <2>2, <2>3, <3>1
  <2>4. CASE i # N + 1
    <3>1. i \in 1 .. N
      BY <1>1, <2>4
    <3>2. Append(old, new)[i] = old[i]
      <4>1. Len(old) = N
        BY <1>1
      <4> HIDE DEF old, new
      <4> QED BY <1>7, <3>1, <4>1, AppendProperties
    <3>3. old[i] = Resample(ph[i], FrameOf(i)) /\ Within(old[i], Made)
      BY <1>2, <3>1
    <3>4. Len(old[i]) \in Nat
      <4>1. Len(old) = N
        BY <1>1
      <4> HIDE DEF old
      <4>2. old[i] \in Seq(SampleSet)
        BY <1>7, <3>1, <4>1, ElementOfSeq
      <4> QED BY <4>2
    <3>5. Within(old[i], Made')
      <4> HIDE DEF old
      <4> QED BY <2>1, <3>3, <3>4, WithinExtends
    <3> HIDE DEF more, frames, old, new
    <3> QED BY <1>8, <2>2, <3>2, <3>5
  <2> QED BY <2>3, <2>4
<1>12. \E q \in [1 .. N + 1 -> 0 .. Decimation - 1] :
         /\ Signal(Made)' = FlattenSeq([i \in 1 .. N + 1 |-> Resample(q[i], FrameOf(i)')])
         /\ \A i \in 1 .. N + 1 : Within(Resample(q[i], FrameOf(i)'), Made')
  <2>1. \A i \in 1 .. N + 1 : Within(Resample(more[i], FrameOf(i)'), Made')
    BY <1>11
  <2> HIDE DEF next
  <2> QED BY <1>6, <1>10, <2>1, Zenon
<1> QED BY <1>6, <1>12 DEF FramesInv, Transmitted
-----------------------------------------------------------------------------
(* The steps. *)

(* A step that neither makes samples nor reads data. *)
LEMMA FramesUntouched ==
  ASSUME FramesInv, UNCHANGED <<dump, line, phase, frame, sent>>
  PROVE  FramesInv'
<1>1. Made' = Made
  BY DEF Made
<1>2. \A i : FrameOf(i)' = FrameOf(i)
  BY DEF FrameOf
<1> QED BY <1>1, <1>2 DEF FramesInv, Transmitted

LEMMA FramesKept ==
  ASSUME TypeOK, FramesInv, sent' = sent,
         Made' = Made \/ (Signal(Made)' = Signal(Made) /\ Extends(Made, Made'))
  PROVE  FramesInv'
<1>1. \A i : FrameOf(i)' = FrameOf(i)
  BY DEF FrameOf
<1>2. Signal(Made)' = Signal(Made)
  OBVIOUS
<1>3. ASSUME NEW part, Len(part) \in Nat, Within(part, Made) PROVE Within(part, Made')
  BY <1>3, WithinExtends
<1>4. PICK ph \in [DOMAIN sent -> 0 .. Decimation - 1] :
        /\ Signal(Made) = FlattenSeq([i \in DOMAIN sent |-> Resample(ph[i], FrameOf(i))])
        /\ \A i \in DOMAIN sent : Within(Resample(ph[i], FrameOf(i)), Made)
  BY DEF FramesInv, Transmitted
<1>5. ASSUME NEW i \in DOMAIN sent PROVE Within(Resample(ph[i], FrameOf(i)), Made')
  <2>1. Len(Resample(ph[i], FrameOf(i))) \in Nat
    BY <1>4, ResampledLength
  <2> QED BY <1>3, <1>4, <2>1
<1> QED BY <1>1, <1>2, <1>4, <1>5 DEF FramesInv, Transmitted

(* Where the sending thread goes on after send_to_radio(). *)
LEMMA TransmitPlace ==
  ASSUME PlaceInv, pc \in {"frame", "dummy"}, NEW in, Transmit(in),
         UNCHANGED <<stop, transferStop, sourceVars, readVars, ending>>,
         frame' # <<>> => pad' = 0 /\ ~ending, pad' \in Nat
  PROVE  PlaceInv'
<1> USE DEF sourceVars, readVars
<1>1. pc' \in {"write", Caller(frame', pad')}
  BY DEF Transmit, SendToRadio
<1>2. Stopped' = Stopped
  BY DEF Stopped
<1> QED BY <1>1, <1>2 DEF PlaceInv, Caller

(* What the radio is given is what the resampler makes of what the filter   *)
(* gives.                                                                   *)
LEMMA TransmitMade ==
  ASSUME TypeOK, NEW in \in Seq(SampleSet), NEW rest \in Seq(SampleSet), frame' = rest,
         Transmit(in), NEW block, Joins(block, in, rest), NEW all, Joins(all, line, block)
  PROVE  Made' = MadeOf(dump, phase, all)
<1>1. /\ dump \in Seq(SampleSet) /\ line \in Seq(SampleSet) /\ Len(line) = Delay
      /\ phase \in 0 .. Decimation - 1
  BY DEF TypeOK
<1>2. /\ line' = Staying(line, in) /\ phase' = NextPhase(phase, Len(in))
      /\ dump' = MadeOf(dump, phase, Emerging(line, in))
  BY DEF Transmit, SendToRadio, MadeOf
<1> DEFINE late == Staying(line, in) \o rest
<1>3. Joins(late, Staying(line, in), rest)
  BY DEF Joins
<1>4. Made' = MadeOf(MadeOf(dump, phase, Emerging(line, in)), NextPhase(phase, Len(in)), late)
  BY <1>2 DEF Made
<1> HIDE DEF late
<1>5. MadeOf(MadeOf(dump, phase, Emerging(line, in)), NextPhase(phase, Len(in)), late)
        = MadeOf(dump, phase, all)
  BY <1>1, <1>3, TransmitContinues
<1> QED BY <1>4, <1>5
(* The number of the next frame. *)
LEMMA NextNumber ==
  ASSUME NEW n \in Nat, NEW d \in Nat \ {0}
  PROVE  ((n % d) + 1) % d = (n + 1) % d
<1>1. PICK q \in Nat, r \in 0 .. d - 1 : q = n \div d /\ r = n % d /\ n = q * d + r
  BY Dividend
<1>2. r + 1 \in Nat /\ n + 1 = q * d + (r + 1)
  BY <1>1
<1>3. (q * d + (r + 1)) % d = (r + 1) % d
  BY <1>2, DivisionOfSum
<1> QED BY <1>1, <1>2, <1>3

LEMMA SendBlockKeepsFrames ==
  ASSUME IInv, CompleteInv, SendBlock
  PROVE  CompleteInv'
<1> USE SamplesAssumption, SendAssumption
<1> DEFINE n == Least(BlockSize, Len(frame))
           in == SubSeq(frame, 1, n)
           rest == SubSeq(frame, n + 1, Len(frame))
<1>1. /\ pc = "frame" /\ frame # <<>> /\ pad = 0 /\ ~ending
      /\ frame \in Seq(SampleSet) /\ line \in Seq(SampleSet) /\ Len(line) = Delay
      /\ phase \in 0 .. Decimation - 1 /\ dump \in Seq(SampleSet)
      /\ Len(sent) - 1 \in Nat /\ counter = (Len(sent) - 1) % CounterValues
  <2>1. /\ pc = "frame" /\ frame # <<>> /\ pad = 0 /\ ~ending
        /\ frame \in Seq(SampleSet) /\ line \in Seq(SampleSet) /\ Len(line) = Delay
        /\ phase \in 0 .. Decimation - 1 /\ dump \in Seq(SampleSet)
        /\ counter = (Len(sent) - 1) % CounterValues
    BY DEF SendBlock, CompleteInv, PlaceInv, CounterInv, IInv, TypeOK
  <2>2. sent # <<>> /\ sent \in Seq(Seq(1 .. DataSize))
    BY <2>1 DEF CompleteInv, CounterInv, IInv, TypeOK
  <2>3. Len(sent) - 1 \in Nat
    BY <2>2
  <2> QED BY <2>1, <2>3
<1>2. Len(frame) \in Nat \ {0} /\ n \in 1 .. Len(frame) /\ n \in 0 .. Len(frame)
  BY <1>1 DEF Least
<1>3. in \in Seq(SampleSet) /\ Len(in) = n /\ rest \in Seq(SampleSet) /\ in \o rest = frame
  BY <1>1, <1>2, Cut
<1>4. rest = <<>> <=> n = Len(frame)
  <2>1. Len(frame) = Len(in) + Len(rest)
    <3>1. Len(in \o rest) = Len(in) + Len(rest)
      BY <1>3, ConcatProperties
    <3> QED BY <1>3, <3>1
  <2>2. rest = <<>> <=> Len(rest) = 0
    BY <1>3, EmptySeq
  <2> QED BY <1>2, <1>3, <2>1, <2>2
<1>5. /\ frame' = rest
      /\ counter' = IF n = Len(frame) THEN (counter + 1) % CounterValues ELSE counter
      /\ UNCHANGED <<pad, ending, stop, transferStop, sourceVars, readVars>>
      /\ Transmit(in)
  BY DEF SendBlock
<1> HIDE DEF n, in, rest
<1>6. PlaceInv'
  <2>1. pad' = 0 /\ pad' \in Nat
    BY <1>1, <1>5
  <2> QED BY <1>1, <1>5, <2>1, TransmitPlace DEF CompleteInv
<1>7. FlushInv'
  BY <1>1, <1>5 DEF FlushInv
<1>8. CounterInv'
  <2>1. sent' = sent /\ sent' # <<>> /\ (Len(sent) - 1) + 1 = Len(sent)
    BY <1>1, <1>5 DEF readVars
  <2>2. CASE rest = <<>>
    <3>1. counter' = (((Len(sent) - 1) % CounterValues) + 1) % CounterValues
      BY <1>1, <1>4, <1>5, <2>2
    <3>2. (((Len(sent) - 1) % CounterValues) + 1) % CounterValues = Len(sent) % CounterValues
      BY <1>1, <2>1, NextNumber
    <3> QED BY <1>5, <2>1, <2>2, <3>1, <3>2 DEF CounterInv
  <2>3. CASE rest # <<>>
    BY <1>1, <1>4, <1>5, <2>1, <2>3 DEF CounterInv
  <2> QED BY <2>2, <2>3
<1>9. FramesInv'
  <2>1. Joins(frame, in, rest) /\ Joins(line \o frame, line, frame)
    BY <1>3 DEF Joins
  <2> DEFINE all == line \o frame
  <2>2. Made = MadeOf(dump, phase, all)
    BY DEF Made
  <2> HIDE DEF all
  <2>3. Made' = MadeOf(dump, phase, all)
    BY <1>3, <1>5, <2>1, TransmitMade DEF IInv, all
  <2> QED BY <1>5, <2>2, <2>3, FramesKept DEF CompleteInv, IInv, readVars
<1> QED BY <1>6, <1>7, <1>8, <1>9 DEF CompleteInv
(* One more zero in the filter. *)
LEMMA FilterShifts ==
  ASSUME NEW S, NEW l \in Seq(S), Len(l) = Delay, Zero \in S
  PROVE  \A i \in 1 .. Delay : Staying(l, <<Zero>>)[i] = IF i < Delay THEN l[i + 1] ELSE Zero
<1> USE SamplesAssumption
<1> DEFINE all == l \o <<Zero>>
<1>1. /\ all \in Seq(S) /\ Len(all) = Delay + 1
      /\ \A k \in 1 .. Delay : all[k] = l[k]
      /\ all[Delay + 1] = Zero
  <2>1. all = Append(l, Zero)
    BY AppendIsConcat
  <2> HIDE DEF all
  <2>2. all \in Seq(S) /\ Len(all) = Len(l) + 1
    BY <2>1, AppendProperties
  <2>3. \A k \in 1 .. Len(l) : all[k] = l[k]
    BY <2>1, AppendProperties
  <2>4. all[Len(l) + 1] = Zero
    BY <2>1, AppendProperties
  <2> QED BY <2>2, <2>3, <2>4
<1> HIDE DEF all
<1>2. \A i \in 1 .. Delay : SubSeq(all, 2, 1 + Delay)[i] = all[i + 1]
  <2>1. \A k \in 2 .. 1 + Delay : all[k] \in S
    <3>1. \A k \in 2 .. 1 + Delay : k \in 1 .. Len(all)
      BY <1>1
    <3> QED BY <1>1, <3>1, ElementOfSeq
  <2>2. \A i \in 1 .. (1 + Delay) - 2 + 1 : SubSeq(all, 2, 1 + Delay)[i] = all[2 + i - 1]
    BY <2>1, SubSeqProperties
  <2>3. \A i \in 1 .. Delay : i \in 1 .. (1 + Delay) - 2 + 1 /\ 2 + i - 1 = i + 1
    OBVIOUS
  <2> QED BY <2>2, <2>3
<1>3. Staying(l, <<Zero>>) = SubSeq(all, 2, 1 + Delay)
  BY DEF Staying, all
<1>4. ASSUME NEW i \in 1 .. Delay
      PROVE  all[i + 1] = IF i < Delay THEN l[i + 1] ELSE Zero
  <2>1. CASE i < Delay
    <3>1. i + 1 \in 1 .. Delay
      BY <2>1
    <3> QED BY <1>1, <2>1, <3>1
  <2>2. CASE ~(i < Delay)
    <3>1. i + 1 = Delay + 1
      BY <2>2
    <3> QED BY <1>1, <2>2, <3>1
  <2> QED BY <2>1, <2>2
<1> QED BY <1>2, <1>3, <1>4

LEMMA SendDummyKeepsFrames ==
  ASSUME IInv, CompleteInv, SendDummy
  PROVE  CompleteInv'
<1> USE SamplesAssumption
<1>1. /\ pc = "dummy" /\ pad \in 1 .. Delay /\ frame = <<>>
      /\ line \in Seq(SampleSet) /\ Len(line) = Delay
      /\ phase \in 0 .. Decimation - 1 /\ dump \in Seq(SampleSet)
      /\ \A i \in pad + 1 .. Delay : line[i] = Zero
  BY DEF SendDummy, CompleteInv, PlaceInv, FlushInv, IInv, TypeOK
<1>2. /\ frame' = <<>> /\ pad' = pad - 1 /\ counter' = counter
      /\ UNCHANGED <<ending, stop, transferStop, sourceVars, readVars>>
      /\ Transmit(<<Zero>>)
  BY <1>1 DEF SendDummy
<1>3. <<Zero>> \in Seq(SampleSet) /\ \A i \in 1 .. Len(<<Zero>>) : <<Zero>>[i] = Zero
  BY ZeroType
<1>4. PlaceInv'
  <2>1. pad' \in Nat
    BY <1>1, <1>2
  <2> QED BY <1>1, <1>2, <2>1, TransmitPlace DEF CompleteInv
<1>5. FlushInv'
  <2>1. line' = Staying(line, <<Zero>>)
    BY <1>2 DEF Transmit
  <2>2. \A i \in 1 .. Delay : line'[i] = IF i < Delay THEN line[i + 1] ELSE Zero
    BY <1>1, <2>1, ZeroType, FilterShifts
  <2>3. ASSUME NEW i \in pad .. Delay PROVE line'[i] = Zero
    <3>1. i \in 1 .. Delay /\ (i < Delay => i + 1 \in pad + 1 .. Delay)
      BY <1>1
    <3> QED BY <1>1, <2>2, <3>1
  <2>4. pad' + 1 .. Delay = pad .. Delay
    BY <1>1, <1>2
  <2> QED BY <2>3, <2>4 DEF FlushInv
<1>6. CounterInv'
  BY <1>1, <1>2 DEF CompleteInv, CounterInv, readVars
<1>7. FramesInv'
  <2> DEFINE all == line \o <<Zero>>
  <2>1. Joins(<<Zero>>, <<Zero>>, <<>>) /\ Joins(all, line, <<Zero>>)
    <3>1. <<Zero>> \o <<>> = <<Zero>>
      BY <1>3, ConcatEmptySeq
    <3> QED BY <3>1 DEF Joins
  <2> HIDE DEF all
  <2>2. Made' = MadeOf(dump, phase, all)
    <3>1. <<>> \in Seq(SampleSet)
      BY EmptySeq
    <3> QED BY <1>2, <1>3, <2>1, <3>1, TransmitMade DEF IInv
  <2>3. Made = MadeOf(dump, phase, line)
    <3>1. line \o <<>> = line
      BY <1>1, ConcatEmptySeq
    <3> QED BY <1>1, <3>1 DEF Made
  <2>4. /\ Signal(MadeOf(dump, phase, all)) = Signal(MadeOf(dump, phase, line))
        /\ Extends(MadeOf(dump, phase, line), MadeOf(dump, phase, all))
    <3> DEFINE z == <<Zero>>
    <3>1. z \in Seq(SampleSet) /\ (\A i \in 1 .. Len(z) : z[i] = Zero) /\ Joins(all, line, z)
      BY <1>3, <2>1
    <3> HIDE DEF z
    <3> QED BY <1>1, <3>1, SilenceAdds
  <2> QED BY <1>2, <2>2, <2>3, <2>4, FramesKept DEF CompleteInv, IInv, readVars
<1> QED BY <1>4, <1>5, <1>6, <1>7 DEF CompleteInv

LEMMA ReadPayloadKeepsFrames ==
  ASSUME IInv, CompleteInv, ReadPayload
  PROVE  CompleteInv'
<1> USE SamplesAssumption, SendAssumption
<1> DEFINE n == Least(PayloadSize, avail - pos)
           payload == Units(pos, n)
<1>1. /\ pc = "read" /\ ~Stopped /\ ~eof /\ pos \in Nat /\ avail - pos \in Nat \ {0}
      /\ frame = <<>> /\ pad = 0 /\ ~ending
      /\ avail \in 0 .. DataSize /\ closed \in BOOLEAN
      /\ sent \in Seq(Seq(1 .. DataSize)) /\ Len(sent) \in Nat
      /\ counter = Len(sent) % CounterValues
  <2>1. /\ pc = "read" /\ ~Stopped /\ ~eof /\ pos \in 0 .. avail /\ pos < avail
        /\ frame = <<>> /\ pad = 0 /\ ~ending
        /\ avail \in 0 .. DataSize /\ closed \in BOOLEAN
        /\ sent \in Seq(Seq(1 .. DataSize))
        /\ counter = Len(sent) % CounterValues
    BY DEF ReadPayload, CompleteInv, PlaceInv, CounterInv, IInv, TypeOK
  <2>2. pos \in Nat /\ avail \in Nat
    BY <2>1
  <2>3. avail - pos \in Nat \ {0}
    BY <2>1, <2>2
  <2>4. Len(sent) \in Nat
    BY <2>1
  <2> QED BY <2>1, <2>2, <2>3, <2>4
<1>2. n \in Nat /\ n <= avail - pos /\ (n < PayloadSize => n = avail - pos)
  BY <1>1 DEF Least
<1>3. /\ pos' = pos + n /\ eof' = (closed /\ n < PayloadSize)
      /\ sent' = Append(sent, payload)
      /\ frame' = FrameSamples(Header(Id, counter), payload)
      /\ pc' = "frame"
      /\ UNCHANGED <<stop, transferStop, sourceVars, counter, pad, ending, line, phase, radioVars>>
  BY DEF ReadPayload
<1> HIDE DEF n
<1>4. payload \in Seq(1 .. DataSize)
  <2>1. pos + n <= DataSize
    BY <1>1, <1>2
  <2> QED BY <1>1, <1>2, <2>1, UnitsType
<1> HIDE DEF payload
<1>5. /\ frame' \in Seq(SampleSet) /\ frame' # <<>>
      /\ \A k \in 1 .. Len(frame') : frame'[k] # Zero
  <2>1. counter \in 0 .. CounterValues - 1
    BY DEF IInv, TypeOK
  <2>2. Len(payload) \in Nat
    BY <1>4
  <2> QED BY <1>3, <1>4, <2>1, <2>2, FrameType, FrameNotZero
<1>6. PlaceInv'
  <2>1. eof' => closed' /\ pos' = avail'
    <3>1. closed' = closed /\ avail' = avail
      BY <1>3 DEF sourceVars
    <3>2. eof' => closed /\ n < PayloadSize
      BY <1>3
    <3>3. n < PayloadSize => pos + n = avail
      BY <1>1, <1>2
    <3> QED BY <1>3, <3>1, <3>2, <3>3
  <2> QED BY <1>1, <1>3, <1>5, <2>1 DEF PlaceInv
<1>7. FlushInv'
  BY <1>1, <1>3 DEF FlushInv
<1>8. CounterInv'
  <2>1. sent' # <<>> /\ Len(sent') - 1 = Len(sent)
    BY <1>1, <1>3, <1>4
  <2> QED BY <1>1, <1>3, <1>5, <2>1 DEF CounterInv
<1>9. FramesInv'
  <2> DEFINE f == FrameSamples(Header(Id, counter), payload)
  <2>1. f \in Seq(SampleSet) /\ \A k \in 1 .. Len(f) : f[k] # Zero
    BY <1>3, <1>5
  <2>2. f = FrameSamples(Header(Id, Len(sent) % CounterValues), payload)
    BY <1>1
  <2> HIDE DEF f
  <2>3. frame' = f /\ UNCHANGED <<dump, line, phase>>
    BY <1>3 DEF f, radioVars
  <2> QED BY <1>1, <1>3, <1>4, <2>1, <2>2, <2>3, OneMoreFrame DEF CompleteInv
<1> QED BY <1>6, <1>7, <1>8, <1>9 DEF CompleteInv
(* The other steps of the thread and of the radio. *)
LEMMA CalmStepKeepsFrames ==
  ASSUME IInv, CompleteInv,
         \/ Start \/ LeaveLoop \/ ReadNothing
         \/ WriteDone \/ BurstDone \/ \E r : ReadStreamStatus(r)
         \/ \E r : WriteStream(r) \/ WriteBurst(r)
  PROVE  CompleteInv'
<1> USE SamplesAssumption
<1>1. /\ UNCHANGED <<dump, line, phase, frame, sent, counter>>
      /\ (pad' = pad /\ ending' = ending) \/ pad' = Delay
  BY DEF Start, LeaveLoop, ReadNothing, WriteDone, BurstDone, ReadStreamStatus,
         WriteStream, WriteBurst, FlushLength, sourceVars, readVars, generatorVars, radioVars
<1>2. FramesInv' /\ CounterInv'
  BY <1>1, FramesUntouched DEF CompleteInv, CounterInv
<1>3. FlushInv'
  BY <1>1 DEF CompleteInv, FlushInv
<1>4. PlaceInv'
  <2> USE DEF CompleteInv, PlaceInv, sourceVars, readVars, generatorVars, Stopped
  <2>1. CASE Start
    BY <2>1 DEF Start
  <2>2. CASE LeaveLoop
    BY <2>2 DEF LeaveLoop
  <2>3. CASE ReadNothing
    BY <2>3 DEF ReadNothing
  <2>4. CASE WriteDone
    <3>1. pad \in Nat /\ frame' = frame /\ pad' = pad /\ ending' = ending
      BY <2>4 DEF WriteDone, IInv, TypeOK
    <3>2. CASE ending /\ pad = 0
      BY <2>4, <3>1, <3>2 DEF WriteDone
    <3>3. CASE ~(ending /\ pad = 0)
      <4>1. pc' = Caller(frame, pad)
        BY <2>4, <3>3 DEF WriteDone
      <4> QED BY <2>4, <3>1, <3>3, <4>1 DEF WriteDone, Caller
    <3> QED BY <3>2, <3>3
  <2>5. CASE BurstDone
    BY <2>5 DEF BurstDone
  <2>6. CASE \E r : ReadStreamStatus(r)
    BY <2>6 DEF ReadStreamStatus
  <2>7. CASE \E r : WriteStream(r) \/ WriteBurst(r)
    BY <2>7 DEF WriteStream, WriteBurst
  <2> QED BY <2>1, <2>2, <2>3, <2>4, <2>5, <2>6, <2>7
<1> QED BY <1>2, <1>3, <1>4 DEF CompleteInv

LEMMA EnvironmentKeepsFrames ==
  ASSUME CompleteInv, Environment \/ UNCHANGED vars
  PROVE  CompleteInv'
<1>1. UNCHANGED <<dump, line, phase, frame, sent, counter, pad, ending, pc, pos, eof>>
  BY DEF Environment, StopAll, StopTransfer, Produce, CloseSource, vars,
         readVars, generatorVars, radioVars
<1>2. FramesInv' /\ CounterInv' /\ FlushInv'
  BY <1>1, FramesUntouched DEF CompleteInv, CounterInv, FlushInv
<1>3. PlaceInv'
  BY <1>1 DEF CompleteInv, PlaceInv, Environment, StopAll, StopTransfer, Produce, CloseSource,
              vars, sourceVars, Stopped
<1> QED BY <1>2, <1>3 DEF CompleteInv

LEMMA InitCompleteInv == Init => CompleteInv
<1> SUFFICES ASSUME Init PROVE CompleteInv
  OBVIOUS
<1> USE SamplesAssumption, SendAssumption
<1>1. /\ frame = <<>> /\ sent = <<>> /\ dump = <<>> /\ line = EmptyLine /\ phase = 0
      /\ pad = 0 /\ ~ending /\ ~eof /\ pc = "created" /\ counter = 0
  BY DEF Init
<1>2. PlaceInv /\ FlushInv
  BY <1>1 DEF PlaceInv, FlushInv
<1>3. CounterInv
  <2>1. Len(sent) = 0 /\ 0 % CounterValues = 0
    BY <1>1
  <2> QED BY <1>1, <2>1 DEF CounterInv
<1>4. FramesInv
  <2>1. /\ EmptyLine \in Seq({Zero}) /\ Len(EmptyLine) = Delay
        /\ \A i \in 1 .. Len(EmptyLine) : EmptyLine[i] = Zero
    BY DEF EmptyLine
  <2>2. Signal(Resample(0, EmptyLine)) = <<>>
    BY <2>1, ZerosResampled
  <2>3. Made = Resample(0, EmptyLine)
    <3>1. EmptyLine \o <<>> = EmptyLine
      BY <2>1, ConcatEmptySeq
    <3>2. Resample(0, EmptyLine) \in Seq({Zero})
      BY <2>1, ResampleType
    <3>3. <<>> \o Resample(0, EmptyLine) = Resample(0, EmptyLine)
      BY <3>2, ConcatEmptySeq
    <3> QED BY <1>1, <3>1, <3>3 DEF Made, MadeOf
  <2>4. ASSUME NEW ph \in [1 .. 0 -> 0 .. Decimation - 1]
        PROVE  FlattenSeq([i \in 1 .. 0 |-> Resample(ph[i], FrameOf(i))]) = <<>>
    <3>1. [i \in 1 .. 0 |-> Resample(ph[i], FrameOf(i))] = <<>>
      OBVIOUS
    <3> QED BY <3>1, FlattenEmpty
  <2>5. DOMAIN sent = 1 .. 0
    BY <1>1
  <2>6. [i \in 1 .. 0 |-> 0] \in [1 .. 0 -> 0 .. Decimation - 1]
    OBVIOUS
  <2>7. \E ph \in [1 .. 0 -> 0 .. Decimation - 1] :
          /\ Signal(Made) = FlattenSeq([i \in 1 .. 0 |-> Resample(ph[i], FrameOf(i))])
          /\ \A i \in 1 .. 0 : Within(Resample(ph[i], FrameOf(i)), Made)
    <3> DEFINE ph == [i \in 1 .. 0 |-> 0]
    <3>1. Signal(Made) = FlattenSeq([i \in 1 .. 0 |-> Resample(ph[i], FrameOf(i))])
      BY <2>2, <2>3, <2>4, <2>6
    <3>2. \A i \in 1 .. 0 : Within(Resample(ph[i], FrameOf(i)), Made)
      OBVIOUS
    <3>3. ph \in [1 .. 0 -> 0 .. Decimation - 1]
      BY <2>6
    <3> HIDE DEF ph
    <3> QED BY <3>1, <3>2, <3>3, Zenon
  <2> QED BY <2>5, <2>7 DEF FramesInv, Transmitted
<1> QED BY <1>2, <1>3, <1>4 DEF CompleteInv

LEMMA NextCompleteInv == IInv /\ CompleteInv /\ [Next]_vars => CompleteInv'
<1> SUFFICES ASSUME IInv, CompleteInv, [Next]_vars PROVE CompleteInv'
  OBVIOUS
<1>1. CASE SendBlock
  BY <1>1, SendBlockKeepsFrames
<1>2. CASE SendDummy
  BY <1>2, SendDummyKeepsFrames
<1>3. CASE ReadPayload
  BY <1>3, ReadPayloadKeepsFrames
<1>4. CASE Environment \/ UNCHANGED vars
  BY <1>4, EnvironmentKeepsFrames
<1>5. CASE \/ Start \/ LeaveLoop \/ ReadNothing
           \/ WriteDone \/ BurstDone \/ \E r : ReadStreamStatus(r)
           \/ \E r : WriteStream(r) \/ WriteBurst(r)
  BY <1>5, CalmStepKeepsFrames
<1> QED BY <1>1, <1>2, <1>3, <1>4, <1>5 DEF Next, ThreadStep, RadioStep, Returned

THEOREM AlwaysCompleteInv == Spec => []CompleteInv
<1>1. IInv /\ CompleteInv /\ [Next]_vars => CompleteInv'
  BY NextCompleteInv
<1> QED BY <1>1, InitCompleteInv, AlwaysIInv, PTL DEF Spec

(* When dsss_transfer_start() returns, every frame whose payload was read   *)
(* has been given to the radio to its last sample, each in one piece and at *)
(* some phase of the resampler, for every ratio, delay, block and amount of *)
(* data: FlushLength zeros are enough.  A stop cuts the frames of a         *)
(* SoapySDR radio only; without one all the data has been read.             *)
THEOREM AlwaysComplete == Spec => []CompleteOnReturn
<1>1. IInv /\ CompleteInv => CompleteOnReturn
  <2> SUFFICES ASSUME IInv, CompleteInv, pc = "done"
               PROVE  /\ Radio # "SOAPYSDR" \/ ~Stopped => Transmitted(air)
                      /\ ~Stopped => closed /\ pos = avail
    BY DEF CompleteOnReturn
  <2>1. ~Stopped => closed /\ pos = avail
    BY DEF CompleteInv, PlaceInv
  <2>2. ASSUME Radio # "SOAPYSDR" \/ ~Stopped PROVE air = dump
    <3>1. air \in Seq(SampleSet) /\ chunk = <<>>
      BY DEF IInv, TypeOK
    <3>2. air \o <<>> = air
      BY <3>1, ConcatEmptySeq
    <3> QED BY <2>2, <3>1, <3>2 DEF IInv, StreamIntact
  <2>3. /\ line \in Seq(SampleSet) /\ Len(line) = Delay /\ frame = <<>>
        /\ \A i \in 1 .. Len(line) : line[i] = Zero
        /\ phase \in 0 .. Decimation - 1 /\ dump \in Seq(SampleSet)
    BY SamplesAssumption DEF IInv, TypeOK, CompleteInv, PlaceInv, FlushInv
  <2> DEFINE out == Resample(phase, line)
  <2>4. Made = dump \o out
    <3>1. line \o <<>> = line
      BY <2>3, ConcatEmptySeq
    <3> QED BY <2>3, <3>1 DEF Made, MadeOf
  <2>5. /\ out \in Seq(SampleSet) /\ Signal(out) = <<>>
        /\ \A j \in 1 .. Len(out) : out[j] = Zero
    BY <2>3, ResampleType, ZerosResampled, ResampledZeros
  <2> HIDE DEF out
  <2>6. Signal(Made) = Signal(dump)
    <3>1. Signal(dump \o out) = Signal(dump) \o Signal(out)
      BY <2>3, <2>5, SignalConcat
    <3>2. Signal(dump) \o <<>> = Signal(dump)
      BY <2>3, SignalType, ConcatEmptySeq
    <3> QED BY <2>4, <2>5, <3>1, <3>2
  <2>7. PICK ph \in [DOMAIN sent -> 0 .. Decimation - 1] :
          /\ Signal(Made) = FlattenSeq([i \in DOMAIN sent |-> Resample(ph[i], FrameOf(i))])
          /\ \A i \in DOMAIN sent : Within(Resample(ph[i], FrameOf(i)), Made)
    BY DEF CompleteInv, FramesInv, Transmitted
  <2>8. ASSUME NEW i \in DOMAIN sent PROVE Within(Resample(ph[i], FrameOf(i)), dump)
    <3> DEFINE part == Resample(ph[i], FrameOf(i))
    <3>1. /\ Len(part) \in Nat
          /\ \A k \in 1 .. Len(part) : part[k] # Zero
      <4>1. i \in 1 .. Len(sent) /\ TypeOK /\ sent \in Seq(Seq(1 .. DataSize))
        BY DEF IInv, TypeOK
      <4>2. FrameOf(i) \in Seq(SampleSet)
        BY <4>1, FramesType
      <4>3. \A k \in 1 .. Len(FrameOf(i)) : FrameOf(i)[k] # Zero
        <5>1. sent[i] \in Seq(1 .. DataSize)
          BY <4>1, ElementOfSeq
        <5>2. Len(sent[i]) \in Nat
          BY <5>1
        <5> QED BY <5>2, FrameNotZero DEF FrameOf
      <4> QED BY <2>7, <4>1, <4>2, <4>3, NoZeroResampled, ResampledLength
    <3>2. Within(part, Made)
      BY <2>7
    <3>3. Joins(Made, dump, out)
      BY <2>4 DEF Joins
    <3> HIDE DEF part
    <3>4. Within(part, dump)
      BY <2>3, <2>5, <3>1, <3>2, <3>3, WithinBeforeZeros
    <3> QED BY <3>4 DEF part
  <2>9. Transmitted(dump)
    BY <2>6, <2>7, <2>8 DEF Transmitted
  <2> QED BY <2>1, <2>2, <2>9
<1> QED BY <1>1, AlwaysIInv, AlwaysCompleteInv, PTL
=============================================================================
