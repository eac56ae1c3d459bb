----------------------------- MODULE SendFrames -----------------------------
(***************************************************************************)
(* send_frames() of src/src/dsss-transfer.c and what it calls: the data     *)
(* callback, send_dummy_samples() and send_to_radio(), from the call of     *)
(* dsss_transfer_start() to its return, with the stop requests that signal  *)
(* handlers and other threads make meanwhile.                               *)
(*                                                                          *)
(* The data is the sequence 1, 2, ..., DataSize: a unit is told apart by    *)
(* its position.                                                            *)
(***************************************************************************)
EXTENDS Samples, SequencesExt

CONSTANTS
  Radio,        (* "IO", "FILENAME" or "SOAPYSDR": transfer->radio_type      *)
  Source,       (* "file" or "stdin": where read_data() gets the data         *)
  Id,           (* transfer->id                                              *)
  DataSize,     (* units of data the source delivers before its end          *)
  PayloadSize,  (* payload_size, the largest payload of a frame              *)
  BlockSize,    (* frame_samples_size, the samples generated at once         *)
  CounterValues, (* values of an unsigned int: 2^32                          *)
  MTU,          (* SoapySDRDevice_getStreamMTU()                             *)
  MaxIdle       (* bound: consecutive underruns of the source that are taken *)

ASSUME SendAssumption ==
  /\ Radio \in {"IO", "FILENAME", "SOAPYSDR"}
  /\ Source \in {"file", "stdin"}
  /\ DataSize \in Nat
  /\ PayloadSize \in Nat \ {0}
  /\ BlockSize \in Nat \ {0}
  /\ CounterValues \in Nat \ {0}
  /\ MTU \in Nat
  /\ MaxIdle \in Nat

VARIABLES
  stop,          (* the global stop flag, common to all the transfers         *)
  transferStop,  (* transfer->stop                                            *)
  pc,            (* where the sending thread is                               *)
  avail,         (* units the source has delivered so far                     *)
  closed,        (* the source has reached its end                            *)
  pos,           (* units read by the data callback                           *)
  eof,           (* feof(transfer->file)                                      *)
  idle,          (* consecutive underruns                                     *)
  counter,       (* number of the next frame                                  *)
  frame,         (* samples of the current frame still to be generated        *)
  pad,           (* zeros still to be sent by send_dummy_samples()            *)
  ending,        (* the main loop is over, so pad counts the final zeros      *)
  line, phase,   (* the resampler                                             *)
  chunk,         (* samples the current send_to_radio() has still to write    *)
  chunkSize,     (* its samples_size                                          *)
  burst,         (* zeros still needed to complete the last buffer            *)
  air,           (* history: samples accepted by the radio, final zeros apart *)
  dump,          (* the dump file                                             *)
  sent           (* history: payloads put into frames                         *)

sourceVars == <<avail, closed>>
readVars == <<pos, eof, idle, sent>>
generatorVars == <<frame, counter, pad, ending, line, phase>>
radioVars == <<chunk, chunkSize, burst, air, dump>>
vars == <<stop, transferStop, pc, sourceVars, readVars, generatorVars, radioVars>>

Stopped == stop \/ transferStop

Units(first, n) == [i \in 1 .. n |-> first + i]

(* samples_size, the room for what the resampler gives at once: the ratio   *)
(* times a block and a filter delay, rounded up.                            *)
SamplesSize ==
  ((BlockSize + Delay) * Interpolation + Decimation - 1) \div Decimation

Least(a, b) == IF a < b THEN a ELSE b
-----------------------------------------------------------------------------
Init ==
  /\ stop = FALSE /\ transferStop = FALSE
  /\ pc = "created"
  /\ closed = (Source # "stdin")
  /\ avail = IF Source = "stdin" THEN 0 ELSE DataSize
  /\ pos = 0 /\ eof = FALSE /\ idle = 0 /\ sent = <<>>
  /\ frame = <<>> /\ counter = 0 /\ pad = 0 /\ ending = FALSE
  /\ line = EmptyLine /\ phase = 0
  /\ chunk = <<>> /\ chunkSize = 0 /\ burst = 0
  /\ air = <<>> /\ dump = <<>>

(* dsss_transfer_start(): both stop flags are cleared. *)
Start ==
  /\ pc = "created"
  /\ pc' = "read"
  /\ stop' = FALSE /\ transferStop' = FALSE
  /\ UNCHANGED <<sourceVars, readVars, generatorVars, radioVars>>

(* Mutant: one zero too few. *)
FlushLength_Short == Delay - 1

(* The zeros that push the last samples out of the resampler. *)
FlushLength == Delay

(* Mutant: the stop flags do not end the loop. *)
LeaveLoop_EndOnly ==
  /\ pc = "read" /\ eof
  /\ pc' = "dummy"
  /\ ending' = TRUE /\ pad' = FlushLength
  /\ UNCHANGED <<stop, transferStop, sourceVars, readVars, frame, counter,
                 line, phase, radioVars>>

(* The main loop ends: on a stop, or when read_data() finds feof() and      *)
(* returns -1.                                                              *)
LeaveLoop ==
  /\ pc = "read"
  /\ Stopped \/ eof
  /\ pc' = "dummy"
  /\ ending' = TRUE /\ pad' = FlushLength
  /\ UNCHANGED <<stop, transferStop, sourceVars, readVars, frame, counter,
                 line, phase, radioVars>>

(* read_data() returns data: a frame is assembled.  fread() sets the end of *)
(* file indicator when it wants more than a source at its end has left; one *)
(* that is not at its end (standard input is non-blocking) gives what it    *)
(* has.                                                                     *)
ReadPayload ==
  /\ pc = "read" /\ ~Stopped /\ ~eof
  /\ pos < avail
  /\ LET n == Least(PayloadSize, avail - pos)
     IN  /\ pos' = pos + n
         /\ eof' = (closed /\ n < PayloadSize)
         /\ sent' = Append(sent, Units(pos, n))
         /\ frame' = FrameSamples(Header(Id, counter), Units(pos, n))
  /\ idle' = 0
  /\ pc' = "frame"
  /\ UNCHANGED <<stop, transferStop, sourceVars, counter, pad, ending, line,
                 phase, radioVars>>

(* Mutant: nothing is sent on an underrun. *)
ReadNothing_NoFlush ==
  /\ pc = "read" /\ ~Stopped /\ ~eof
  /\ pos = avail
  /\ closed \/ idle < MaxIdle
  /\ eof' = closed
  /\ idle' = idle + 1
  /\ UNCHANGED <<stop, transferStop, pc, sourceVars, pos, sent, generatorVars,
                 radioVars>>

(* read_data() returns 0: an underrun, or the read that finds the end. *)
ReadNothing ==
  /\ pc = "read" /\ ~Stopped /\ ~eof
  /\ pos = avail
  /\ closed \/ idle < MaxIdle
  /\ eof' = closed
  /\ idle' = idle + 1
  /\ pad' = FlushLength
  /\ pc' = "dummy"
  /\ UNCHANGED <<stop, transferStop, sourceVars, pos, sent, frame, counter,
                 ending, line, phase, radioVars>>
-----------------------------------------------------------------------------
(* Where send_to_radio() returns to. *)
Caller(samplesLeft, zerosLeft) ==
  IF samplesLeft # <<>> THEN "frame"
  ELSE IF zerosLeft > 0 THEN "dummy"
  ELSE IF ending THEN "done" ELSE "read"

(* send_to_radio(): a SoapySDR stream takes the samples little by little,   *)
(* a file or a pipe takes them all, whatever the stop flags say.            *)
SendToRadio(out) ==
  /\ dump' = dump \o out
  /\ chunkSize' = Len(out)
  /\ UNCHANGED burst
  /\ \/ /\ Radio = "SOAPYSDR"
        /\ chunk' = out
        /\ pc' = "write"
        /\ UNCHANGED air
     \/ /\ Radio # "SOAPYSDR"
        /\ air' = air \o out
        /\ pc' = Caller(frame', pad')
        /\ UNCHANGED chunk

(* The resampler takes some samples and what comes out goes to the radio. *)
Transmit(in) ==
  /\ line' = Staying(line, in)
  /\ phase' = NextPhase(phase, Len(in))
  /\ SendToRadio(Resample(phase, Emerging(line, in)))

(* One turn of the loop on frame_complete: the next block of the frame,     *)
(* without the padding after its end.  The counter is incremented after the *)
(* last block.                                                              *)
SendBlock ==
  /\ pc = "frame"
  /\ LET n == Least(BlockSize, Len(frame))
     IN  /\ frame' = SubSeq(frame, n + 1, Len(frame))
         /\ counter' = IF n = Len(frame) THEN (counter + 1) % CounterValues ELSE counter
         /\ UNCHANGED <<pad, ending>>
         /\ Transmit(SubSeq(frame, 1, n))
  /\ UNCHANGED <<stop, transferStop, sourceVars, readVars>>

(* One turn of the loop of send_dummy_samples(). *)
SendDummy ==
  /\ pc = "dummy"
  /\ pad' = pad - 1
  /\ UNCHANGED <<frame, counter, ending>>
  /\ Transmit(<<Zero>>)
  /\ UNCHANGED <<stop, transferStop, sourceVars, readVars>>

(* Mutant: a partial write does not advance the buffer. *)
WriteStream_SameBuffer(r) ==
  /\ pc = "write" /\ ~Stopped
  /\ air' = air \o SubSeq(chunk, 1, r)
  /\ chunk' = SubSeq(chunk, 1, Len(chunk) - r)
  /\ UNCHANGED <<stop, transferStop, pc, sourceVars, readVars, generatorVars,
                 chunkSize, burst, dump>>

(* SoapySDRDevice_writeStream() accepts r samples. *)
WriteStream(r) ==
  /\ pc = "write" /\ ~Stopped
  /\ air' = air \o SubSeq(chunk, 1, r)
  /\ chunk' = SubSeq(chunk, r + 1, Len(chunk))
  /\ UNCHANGED <<stop, transferStop, pc, sourceVars, readVars, generatorVars,
                 chunkSize, burst, dump>>

(* Mutant: the loop ends only when everything is written. *)
WriteDone_AllWritten ==
  /\ pc = "write" /\ chunk = <<>>
  /\ IF ending /\ pad = 0
     THEN pc' = "burst" /\ burst' = MTU
     ELSE pc' = Caller(frame, pad) /\ UNCHANGED burst
  /\ UNCHANGED <<stop, transferStop, sourceVars, readVars, generatorVars,
                 chunk, chunkSize, air, dump>>

(* The write loop ends; after a stop what is left is not sent.  After the   *)
(* last samples of the transfer the buffer of the radio must be completed.  *)
WriteDone ==
  /\ pc = "write"
  /\ chunk = <<>> \/ Stopped
  /\ chunk' = <<>>
  /\ IF ending /\ pad = 0
     THEN pc' = "burst" /\ burst' = MTU
     ELSE pc' = Caller(frame, pad) /\ UNCHANGED burst
  /\ UNCHANGED <<stop, transferStop, sourceVars, readVars, generatorVars,
                 chunkSize, air, dump>>

(* Mutant: the whole buffer is written each time. *)
BurstChunk_WholeBuffer == chunkSize

(* The zeroed sample buffer is written until the burst is complete. *)
BurstChunk == Least(chunkSize, burst)

(* SoapySDRDevice_writeStream() accepts r of the zeros in the sample buffer. *)
WriteBurst(r) ==
  /\ pc = "burst" /\ ~Stopped
  /\ burst' = burst - r
  /\ UNCHANGED <<stop, transferStop, pc, sourceVars, readVars, generatorVars,
                 chunk, chunkSize, air, dump>>

(* Mutant: the loop goes on while size >= 0. *)
BurstDone_NotAtZero ==
  /\ pc = "burst" /\ Stopped
  /\ pc' = "status"
  /\ UNCHANGED <<stop, transferStop, sourceVars, readVars, generatorVars,
                 radioVars>>

BurstDone ==
  /\ pc = "burst"
  /\ burst = 0 \/ Stopped
  /\ pc' = "status"
  /\ UNCHANGED <<stop, transferStop, sourceVars, readVars, generatorVars,
                 radioVars>>

(* The loop on SoapySDRDevice_readStreamStatus() ends. *)
ReadStreamStatus(r) ==
  /\ pc = "status"
  /\ r = "UNDERFLOW" \/ Stopped
  /\ pc' = "done"
  /\ UNCHANGED <<stop, transferStop, sourceVars, readVars, generatorVars,
                 radioVars>>
-----------------------------------------------------------------------------
(* dsss_transfer_stop_all() and dsss_transfer_stop(), at any time. *)
StopAll ==
  /\ ~stop
  /\ stop' = TRUE
  /\ UNCHANGED <<transferStop, pc, sourceVars, readVars, generatorVars, radioVars>>

StopTransfer ==
  /\ ~transferStop
  /\ transferStop' = TRUE
  /\ UNCHANGED <<stop, pc, sourceVars, readVars, generatorVars, radioVars>>

(* The process that writes to standard input. *)
Produce ==
  /\ ~closed /\ avail < DataSize
  /\ avail' = avail + 1
  /\ UNCHANGED <<stop, transferStop, pc, closed, readVars, generatorVars, radioVars>>

CloseSource ==
  /\ ~closed
  /\ closed' = TRUE
  /\ UNCHANGED <<stop, transferStop, pc, avail, readVars, generatorVars, radioVars>>

(* dsss_transfer_start() has returned. *)
Returned == pc = "done" /\ UNCHANGED vars

(* What the sending thread does by itself, the calls to the radio included  *)
(* that return without having done anything.                                *)
ThreadStep ==
  \/ Start \/ LeaveLoop \/ ReadPayload \/ ReadNothing
  \/ SendBlock \/ SendDummy
  \/ WriteDone \/ BurstDone \/ ReadStreamStatus("TIMEOUT")

(* What takes the radio to happen. *)
RadioStep ==
  \/ \E r \in 1 .. Len(chunk) : WriteStream(r)
  \/ \E r \in 1 .. BurstChunk : WriteBurst(r)
  \/ ReadStreamStatus("UNDERFLOW")

Environment == StopAll \/ StopTransfer \/ Produce \/ CloseSource

Next == ThreadStep \/ RadioStep \/ Environment \/ Returned

(* The thread is scheduled; every SoapySDR call has a timeout, so that it   *)
(* returns even if the radio does nothing.                                  *)
Spec == Init /\ [][Next]_vars /\ WF_vars(ThreadStep)

(* The radio works: it goes on accepting samples, and reports the underflow *)
(* that follows the last one.                                               *)
RadioWorks == WF_vars(RadioStep)
-----------------------------------------------------------------------------
SampleSet ==
  {Zero} \cup (({Id} \X (0 .. CounterValues - 1)) \X Seq(1 .. DataSize) \X (Nat \ {0}))

(* The values of the variables; in particular what the resampler gives fits *)
(* in the buffer of samples.                                                *)
TypeOK ==
  /\ stop \in BOOLEAN /\ transferStop \in BOOLEAN
  /\ pc \in {"created", "read", "frame", "dummy", "write", "burst", "status", "done"}
  /\ avail \in 0 .. DataSize /\ closed \in BOOLEAN
  /\ pos \in 0 .. avail /\ eof \in BOOLEAN /\ idle \in Nat
  /\ sent \in Seq(Seq(1 .. DataSize))
  /\ frame \in Seq(SampleSet) /\ counter \in 0 .. CounterValues - 1
  /\ pad \in 0 .. Delay /\ ending \in BOOLEAN
  /\ line \in Seq(SampleSet) /\ Len(line) = Delay /\ phase \in 0 .. Decimation - 1
  /\ chunk \in Seq(SampleSet) /\ chunkSize \in 0 .. SamplesSize /\ burst \in 0 .. MTU
  /\ air \in Seq(SampleSet) /\ dump \in Seq(SampleSet)

(* What the radio has accepted is what was made for it from the start, with *)
(* no hole, no repetition and nothing out of order, whatever the sizes of   *)
(* the partial writes and whenever a stop comes; before a stop, what is     *)
(* missing is what the current send_to_radio() still has to write.          *)
StreamIntact ==
  /\ IsPrefix(air, dump)
  /\ ~Stopped => air \o chunk = dump

(* The frames assembled so far are numbered from 0, and from 0 again after  *)
(* 2^32 frames.                                                             *)
FrameOf(i) == FrameSamples(Header(Id, (i - 1) % CounterValues), sent[i])

(* What is not zero in a sequence of samples. *)
Signal(s) == FlattenSeq([i \in DOMAIN s |-> IF s[i] = Zero THEN <<>> ELSE <<s[i]>>])

(* The frames one after the other, each in one piece, resampled from its    *)
(* first sample to its last at the phase where the zeros before it have     *)
(* left the resampler; nothing else but zeros.                              *)
Transmitted(s) ==
  \E ph \in [DOMAIN sent -> 0 .. Decimation - 1] :
    /\ Signal(s) = FlattenSeq([i \in DOMAIN sent |-> Resample(ph[i], FrameOf(i))])
    /\ \A i \in DOMAIN sent : Within(Resample(ph[i], FrameOf(i)), s)

(* When dsss_transfer_start() returns, every frame whose payload was read   *)
(* is on the air to its last sample, filter delays notwithstanding: always  *)
(* for a file or a pipe, and for a radio unless the transfer was stopped.   *)
(* Unless stopped, it has read all the data.                                *)
CompleteOnReturn ==
  pc = "done" =>
    /\ Radio # "SOAPYSDR" \/ ~Stopped => Transmitted(air)
    /\ ~Stopped => closed /\ pos = avail

(* A frame does not wait for the data of the next one: with a radio that    *)
(* works, whatever the data callback has returned is eventually on the air, *)
(* even if the source stays open and silent, unless the transfer is stopped.*)
OnAirUpTo(unit) ==
  \E i \in DOMAIN air :
    /\ air[i] # Zero
    /\ LET payload == air[i][2]
       IN  unit \in Range(payload) /\ air[i][3] = HeaderLen + Len(payload)

ReadGoesOut ==
  RadioWorks =>
    \A unit \in 1 .. DataSize : pos >= unit ~> Stopped \/ OnAirUpTo(unit)

(* A stop that comes after dsss_transfer_start() has cleared the flags ends *)
(* the transfer, even if the radio accepts and reports nothing any more.    *)
StopInterrupts == pc # "created" /\ Stopped ~> pc = "done"

(* With a radio that works, dsss_transfer_start() returns after the end of  *)
(* the data (dsss-transfer.h:120 "Start a transfer and return when          *)
(* finished").                                                              *)
EndsWithSource == RadioWorks => (closed ~> pc = "done")

(* dsss-transfer.h:126 "Interrupt all transfers", at whatever moment. *)
StopAllInterrupts == stop ~> pc = "done"
=============================================================================
