---------------------------- MODULE ReceiveFrames ----------------------------
(***************************************************************************)
(* receive_frames() of src/src/dsss-transfer.c and what it calls:           *)
(* receive_from_radio() and, from inside the frame synchronizer,            *)
(* frame_received(), from the call of dsss_transfer_start() to its return.  *)
(*                                                                          *)
(* The samples in front of the receiver are the sequence air, which this    *)
(* module reads and never changes: Reception lets a script of frames and    *)
(* noise arrive there, DataLink the samples that a sender writes.           *)
(***************************************************************************)
EXTENDS Samples, SequencesExt

CONSTANTS
  Radio,           (* "IO", "FILENAME" or "SOAPYSDR": transfer->radio_type     *)
  Id,              (* transfer->id                                             *)
  FrameSize,       (* frame_samples_size, samples of a frame handled at once   *)
  Timeout,         (* transfer->timeout, in seconds; 0 for none                *)
  TicksPerSecond,  (* resolution of the clock that time() rounds down          *)
  MaxLost          (* bound: samples that the radio may lose on overflows      *)

ASSUME ReceiveAssumption ==
  /\ Radio \in {"IO", "FILENAME", "SOAPYSDR"}
  /\ FrameSize \in Nat \ {0}
  /\ Timeout \in Nat
  /\ TicksPerSecond \in Nat \ {0}
  /\ MaxLost \in Nat

VARIABLES
  stop,          (* the global stop flag, common to all the transfers          *)
  transferStop,  (* transfer->stop                                             *)
  pc,            (* where the receiving thread is                              *)
  air,           (* samples that have reached the receiver                     *)
  closed,        (* the writer of the pipe or file has finished                *)
  rpos,          (* samples of air read, or lost                               *)
  lost,          (* history: samples lost                                      *)
  line, phase,   (* the resampler                                              *)
  pending,       (* samples the current dsssframesync_execute() has to take    *)
  sync,          (* the frame that is open in the synchronizer                 *)
  delivered,     (* payloads given to the data callback                        *)
  dump,          (* the dump file                                              *)
  subsecond,     (* ticks since the last change of time(NULL)                  *)
  elapsed,       (* time(NULL) - timeout_start, up to Timeout + 1              *)
  quiet          (* history: ticks since timeout_start was set, up to the same *)

mediumVars == <<air, closed>>
radioVars == <<rpos, lost, dump>>
resamplerVars == <<line, phase>>
syncVars == <<sync, delivered>>
clockVars == <<subsecond, elapsed, quiet>>
vars == <<stop, transferStop, pc, pending, mediumVars, radioVars, resamplerVars,
          syncVars, clockVars>>

Stopped == stop \/ transferStop

Least(a, b) == IF a < b THEN a ELSE b

(* samples_size, the samples asked for at once: a block divided by the      *)
(* ratio, rounded down.                                                     *)
SamplesSize == (FrameSize * Decimation) \div Interpolation

(* What the flush may give fits in the buffer of the frame samples, which   *)
(* has FrameSize + Delay: always, if the radio is sampled at least as fast  *)
(* as the frames; above, if the delay is short beside a block.              *)
FlushFits == OutputLen(Decimation - 1, Delay) <= FrameSize + Delay

(* No frame is open in the synchronizer. *)
Seeking == <<>>

Init ==
  /\ stop = FALSE /\ transferStop = FALSE
  /\ pc = "created"
  /\ rpos = 0 /\ lost = 0 /\ dump = <<>>
  /\ line = EmptyLine /\ phase = 0
  /\ pending = <<>>
  /\ sync = Seeking /\ delivered = <<>>
  /\ subsecond \in 0 .. TicksPerSecond - 1 /\ elapsed = 0 /\ quiet = 0
-----------------------------------------------------------------------------
(* dsss_transfer_start(): the flags are cleared, the timeout starts. *)
Start ==
  /\ pc = "created"
  /\ pc' = "loop"
  /\ stop' = FALSE /\ transferStop' = FALSE
  /\ elapsed' = 0 /\ quiet' = 0
  /\ UNCHANGED <<pending, mediumVars, radioVars, resamplerVars, syncVars, subsecond>>

(* Mutant: only the global flag is tested. *)
TestStop_GlobalOnly ==
  /\ pc = "loop"
  /\ pc' = IF stop THEN "flush" ELSE "read"
  /\ UNCHANGED <<stop, transferStop, pending, mediumVars, radioVars,
                 resamplerVars, syncVars, clockVars>>

(* The test of the stop flags, before the call that reads. *)
TestStop ==
  /\ pc = "loop"
  /\ pc' = IF Stopped THEN "flush" ELSE "read"
  /\ UNCHANGED <<stop, transferStop, pending, mediumVars, radioVars,
                 resamplerVars, syncVars, clockVars>>

(* The samples receive_from_radio() may return.  fread() waits for a whole  *)
(* block or for the end of the file; SoapySDRDevice_readStream() waits for  *)
(* 10 ms at most and returns what it has got, possibly nothing.             *)
Readable ==
  LET there == Least(SamplesSize, Len(air) - rpos)
  IN  IF Radio = "SOAPYSDR" THEN 0 .. there
      ELSE IF there = SamplesSize \/ closed THEN {there}
      ELSE {}

(* Mutant: an inclusive comparison of the rounded times. *)
TimeoutExceeded_Inclusive == Timeout > 0 /\ elapsed >= Timeout

TimeoutExceeded == Timeout > 0 /\ elapsed > Timeout

(* Mutant: the end of the file is only expected of a FILENAME radio. *)
EndOfInput_FileOnly ==
  /\ pc = "read"
  /\ Radio = "FILENAME" /\ 0 \in Readable
  /\ pc' = "flush"
  /\ UNCHANGED <<stop, transferStop, pending, mediumVars, radioVars,
                 resamplerVars, syncVars, clockVars>>

(* receive_from_radio() returns nothing: a file or a pipe is at its end. *)
EndOfInput ==
  /\ pc = "read"
  /\ Radio # "SOAPYSDR" /\ 0 \in Readable
  /\ pc' = "flush"
  /\ UNCHANGED <<stop, transferStop, pending, mediumVars, radioVars,
                 resamplerVars, syncVars, clockVars>>

(* Mutant: a timeout leaves the function without a flush. *)
TimeOut_NoFlush(n) ==
  /\ pc = "read"
  /\ n > 0 \/ Radio = "SOAPYSDR"
  /\ TimeoutExceeded
  /\ rpos' = rpos + n
  /\ pc' = "last"
  /\ UNCHANGED <<stop, transferStop, pending, mediumVars, lost, dump,
                 resamplerVars, syncVars, clockVars>>

(* The timeout is tested once the samples are read: these are dropped. *)
TimeOut(n) ==
  /\ pc = "read"
  /\ n > 0 \/ Radio = "SOAPYSDR"
  /\ TimeoutExceeded
  /\ rpos' = rpos + n
  /\ pc' = "flush"
  /\ UNCHANGED <<stop, transferStop, pending, mediumVars, lost, dump,
                 resamplerVars, syncVars, clockVars>>

(* The resampler takes some samples; what comes out is for the synchronizer. *)
Execute(in) ==
  /\ line' = Staying(line, in)
  /\ phase' = NextPhase(phase, Len(in))
  /\ pending' = Resample(phase, Emerging(line, in))

(* Mutant: the number of samples returned by the radio is ignored. *)
ReceiveBlock_WholeBuffer(n) ==
  /\ pc = "read"
  /\ n > 0 \/ Radio = "SOAPYSDR"
  /\ ~TimeoutExceeded
  /\ LET in == SubSeq(air, rpos + 1, rpos + n)
     IN  dump' = dump \o in /\ Execute(in)
  /\ rpos' = rpos + SamplesSize
  /\ pc' = "feed"
  /\ UNCHANGED <<stop, transferStop, mediumVars, lost, syncVars, clockVars>>

(* A block of n samples goes through the resampler. *)
ReceiveBlock(n) ==
  /\ pc = "read"
  /\ n > 0 \/ Radio = "SOAPYSDR"
  /\ ~TimeoutExceeded
  /\ LET in == SubSeq(air, rpos + 1, rpos + n)
     IN  dump' = dump \o in /\ Execute(in)
  /\ rpos' = rpos + n
  /\ pc' = "feed"
  /\ UNCHANGED <<stop, transferStop, mediumVars, lost, syncVars, clockVars>>

(* Mutant: one zero too few. *)
Flush_Short ==
  /\ pc = "flush"
  /\ Execute(Tail(EmptyLine))
  /\ pc' = "last"
  /\ UNCHANGED <<stop, transferStop, mediumVars, radioVars, syncVars, clockVars>>

(* The loop is over: zeros push the last samples out of the resampler. *)
Flush ==
  /\ pc = "flush"
  /\ Execute(EmptyLine)
  /\ pc' = "last"
  /\ UNCHANGED <<stop, transferStop, mediumVars, radioVars, syncVars, clockVars>>
-----------------------------------------------------------------------------
(* The synchronizer, sample by sample.  It looks for the first sample of a  *)
(* frame, which it may also see in noise, then counts the samples of the    *)
(* frame; one that is not the expected sample damages it beyond repair.     *)
Open(header, payload) ==
  [header |-> header, payload |-> payload, k |-> 1, intact |-> TRUE]

FalseDetection == [Open(Noise, <<>>) EXCEPT !.intact = FALSE]

StartsFrame(s) == Len(s) = 3 /\ s[3] = 1

SyncSample(s) ==
  IF sync # Seeking
  THEN {[sync EXCEPT !.k = @ + 1,
                     !.intact = @ /\ s = <<sync.header, sync.payload, sync.k + 1>>]}
  ELSE IF StartsFrame(s) THEN {Open(s[1], s[2])}
  ELSE IF s = Noise THEN {Seeking, FalseDetection}
  ELSE {Seeking}

(* A damaged header says nothing of the length of the frame, which is given *)
(* up; a damaged payload is counted to its end.                             *)
HeaderRefused(f) == f # Seeking /\ f.k = HeaderLen /\ ~f.intact
Complete(f) == f # Seeking /\ f.k = HeaderLen + Len(f.payload)

(* Mutant: the identifier is not compared. *)
FrameReceived_AnyId(header, headerValid, payload, payloadValid) ==
  /\ elapsed' = 0 /\ quiet' = 0
  /\ delivered' = IF headerValid /\ payloadValid
                  THEN Append(delivered, payload)
                  ELSE delivered

(* Mutant: a payload is accepted on the strength of its header. *)
FrameReceived_Unchecked(header, headerValid, payload, payloadValid) ==
  /\ elapsed' = 0 /\ quiet' = 0
  /\ delivered' = IF headerValid /\ header[1] = Id
                  THEN Append(delivered, payload)
                  ELSE delivered

(* frame_received(): any frame restarts the timeout, and an undamaged one   *)
(* that has the right identifier goes to the data callback.                 *)
FrameReceived(header, headerValid, payload, payloadValid) ==
  /\ elapsed' = 0 /\ quiet' = 0
  /\ delivered' = IF headerValid /\ payloadValid /\ header[1] = Id
                  THEN Append(delivered, payload)
                  ELSE delivered

(* dsssframesync_execute() takes a sample. *)
Take(s) ==
  \E f \in SyncSample(s) :
    \/ /\ ~HeaderRefused(f) /\ ~Complete(f)
       /\ sync' = f
       /\ UNCHANGED <<delivered, elapsed, quiet>>
    \/ /\ HeaderRefused(f)
       /\ sync' = Seeking
       /\ FrameReceived(f.header, FALSE, <<>>, FALSE)
    \/ /\ ~HeaderRefused(f) /\ Complete(f)
       /\ sync' = Seeking
       /\ FrameReceived(f.header, TRUE, f.payload, f.intact)

Feed ==
  /\ pc \in {"feed", "last"} /\ pending # <<>>
  /\ Take(Head(pending))
  /\ pending' = Tail(pending)
  /\ UNCHANGED <<stop, transferStop, pc, mediumVars, radioVars, resamplerVars, subsecond>>

BlockDone ==
  /\ pc = "feed" /\ pending = <<>>
  /\ pc' = "loop"
  /\ UNCHANGED <<stop, transferStop, pending, mediumVars, radioVars,
                 resamplerVars, syncVars, clockVars>>

(* Mutant: the open frame is given no samples. *)
Drain_Nothing ==
  /\ pc = "last" /\ pending = <<>> /\ sync # Seeking
  /\ UNCHANGED vars

(* A frame that is still open at the end is completed with zeros. *)
Drain ==
  /\ pc = "last" /\ pending = <<>> /\ sync # Seeking
  /\ Take(Zero)
  /\ UNCHANGED <<stop, transferStop, pc, pending, mediumVars, radioVars,
                 resamplerVars, subsecond>>

Return ==
  /\ pc = "last" /\ pending = <<>> /\ sync = Seeking
  /\ pc' = "done"
  /\ UNCHANGED <<stop, transferStop, pending, mediumVars, radioVars,
                 resamplerVars, syncVars, clockVars>>
-----------------------------------------------------------------------------
(* dsss_transfer_stop_all() and dsss_transfer_stop(), from a signal handler, *)
(* another thread or the data callback.                                     *)
StopAll ==
  /\ ~stop
  /\ stop' = TRUE
  /\ UNCHANGED <<transferStop, pc, pending, mediumVars, radioVars,
                 resamplerVars, syncVars, clockVars>>

StopTransfer ==
  /\ ~transferStop
  /\ transferStop' = TRUE
  /\ UNCHANGED <<stop, pc, pending, mediumVars, radioVars, resamplerVars,
                 syncVars, clockVars>>

(* The radio loses a sample that was not read in time. *)
Overflow ==
  /\ Radio = "SOAPYSDR" /\ lost < MaxLost /\ rpos < Len(air)
  /\ rpos' = rpos + 1 /\ lost' = lost + 1
  /\ UNCHANGED <<stop, transferStop, pc, pending, mediumVars, dump,
                 resamplerVars, syncVars, clockVars>>

(* Time passes. *)
Tick ==
  /\ Timeout > 0 /\ pc \notin {"created", "done"}
  /\ subsecond' = (subsecond + 1) % TicksPerSecond
  /\ elapsed' = IF subsecond' = 0 THEN Least(elapsed + 1, Timeout + 1) ELSE elapsed
  /\ quiet' = Least(quiet + 1, (Timeout + 1) * TicksPerSecond)
  /\ UNCHANGED <<stop, transferStop, pc, pending, mediumVars, radioVars,
                 resamplerVars, syncVars>>

ThreadStep ==
  \/ Start \/ TestStop \/ EndOfInput
  \/ \E n \in Readable : TimeOut(n) \/ ReceiveBlock(n)
  \/ Flush \/ Feed \/ BlockDone \/ Drain \/ Return

Environment == StopAll \/ StopTransfer \/ Overflow \/ Tick

(* dsss_transfer_start() has returned. *)
Returned == pc = "done" /\ UNCHANGED vars
=============================================================================
