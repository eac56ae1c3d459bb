------------------------------ MODULE Reception ------------------------------
(***************************************************************************)
(* A receiver in front of a medium: frames for it and for others arrive     *)
(* there in the order of a script, with noise between them and in place of  *)
(* some of their samples.                                                   *)
(***************************************************************************)
EXTENDS ReceiveFrames

CONSTANTS
  Frames,    (* the frames on the medium, as <<identifier, payload>>           *)
  MaxNoise   (* bound: samples of noise                                        *)

ASSUME ReceptionAssumption ==
  /\ Frames \in Seq(STRING \X Seq(Nat))
  /\ \A i \in DOMAIN Frames : HeaderLen + Len(Frames[i][2]) > 1  \* of several samples
  /\ MaxNoise \in Nat

VARIABLES
  ahead,     (* samples of the script that have not arrived                    *)
  noise      (* history: samples of noise that have arrived                    *)

allVars == <<vars, ahead, noise>>

FrameOf(i) == FrameSamples(Header(Frames[i][1], i - 1), Frames[i][2])

(* Each sample of a frame as often as the transmitter repeats it. *)
Raw(f) == [j \in 1 .. Len(f) * Decimation |-> f[(j - 1) \div Decimation + 1]]

(* The transmitter gives each sample of a frame the duration of Decimation  *)
(* samples, and zeros follow the last frame.                                *)
Script ==
  Raw(FlattenSeq([i \in DOMAIN Frames |-> FrameOf(i)]) \o <<Zero>>)

ReceptionInit ==
  /\ Init
  /\ ahead = Script /\ noise = 0
  /\ air = <<>> /\ closed = FALSE

(* A sample arrives, intact or damaged. *)
Arrive ==
  /\ ~closed /\ ahead # <<>>
  /\ ahead' = Tail(ahead)
  /\ \/ air' = Append(air, Head(ahead)) /\ UNCHANGED noise
     \/ noise < MaxNoise /\ noise' = noise + 1 /\ air' = Append(air, Noise)
  /\ UNCHANGED <<stop, transferStop, pc, pending, closed, radioVars,
                 resamplerVars, syncVars, clockVars>>

(* Noise arrives between two samples of the script. *)
ArriveNoise ==
  /\ ~closed /\ noise < MaxNoise
  /\ noise' = noise + 1
  /\ air' = Append(air, Noise)
  /\ UNCHANGED <<ahead, stop, transferStop, pc, pending, closed, radioVars,
                 resamplerVars, syncVars, clockVars>>

(* What writes to the pipe ends. *)
Close ==
  /\ ~closed
  /\ closed' = TRUE
  /\ UNCHANGED <<ahead, noise, stop, transferStop, pc, pending, air, radioVars,
                 resamplerVars, syncVars, clockVars>>

Receiver == (ThreadStep \/ Environment) /\ UNCHANGED <<ahead, noise>>

ReceptionNext ==
  \/ Receiver
  \/ Arrive \/ ArriveNoise \/ Close
  \/ Returned /\ UNCHANGED <<ahead, noise>>

(* The thread is scheduled, and time passes. *)
ReceptionSpec ==
  /\ ReceptionInit /\ [][ReceptionNext]_allVars
  /\ WF_allVars(ThreadStep /\ UNCHANGED <<ahead, noise>>)
  /\ WF_allVars(Tick /\ UNCHANGED <<ahead, noise>>)
-----------------------------------------------------------------------------
(* What the resampler gives fits in the buffer of the frame samples: always *)
(* for a block, and for the flush if FlushFits.                             *)
PendingFits == pc # "last" \/ FlushFits => Len(pending) <= FrameSize + Delay

(* The values of the variables; in particular PendingFits, at every phase   *)
(* of the resampler.                                                        *)
TypeOK ==
  /\ stop \in BOOLEAN /\ transferStop \in BOOLEAN /\ closed \in BOOLEAN
  /\ pc \in {"created", "loop", "read", "feed", "flush", "last", "done"}
  /\ rpos \in 0 .. Len(air) /\ lost \in 0 .. MaxLost
  /\ Len(dump) <= rpos
  /\ PendingFits
  /\ Len(line) = Delay /\ phase \in 0 .. Decimation - 1
  /\ elapsed \in 0 .. Timeout + 1 /\ subsecond \in 0 .. TicksPerSecond - 1

(* The frames for this receiver. *)
Own == {i \in DOMAIN Frames : Frames[i][1] = Id}

(* Frame i is, undamaged, among the samples that were read and not dropped. *)
Heard(i) == Within(Raw(FrameOf(i)), dump)

(* Frame i is in what the resampler makes of them. *)
Resampled(i) == Within(FrameOf(i), Resample(0, EmptyLine \o dump))

(* Only undamaged payloads of frames that carry the identifier of the       *)
(* receiver are delivered, each at most once and in the order in which they *)
(* were sent, whatever the noise and the losses.                            *)
DeliveredInOrder ==
  \E from \in [DOMAIN delivered -> Own] :
    /\ \A i \in DOMAIN delivered :
         Resampled(from[i]) /\ delivered[i] = Frames[from[i]][2]
    /\ \A i, j \in DOMAIN delivered : i < j => from[i] < from[j]

(* When dsss_transfer_start() returns, every frame for the receiver that    *)
(* was read to its last sample and undamaged has been delivered, the ones   *)
(* that were still in the filters when a stop, the timeout or the end of    *)
(* the input came included; noise of which a frame seemed to begin, or a    *)
(* frame with missing samples, may hide the next frame.  The script is made *)
(* for a radio that is sampled at Decimation times the rate of the frames.  *)
HeardIsDelivered ==
  pc = "done" /\ lost = 0 /\ (HeaderLen = 1 \/ noise = 0) /\ Interpolation = 1 =>
    \A i \in Own : Heard(i) => \E j \in DOMAIN delivered : delivered[j] = Frames[i][2]

(* The timeout never ends a reception less than Timeout seconds after the   *)
(* last frame of any kind, though time() only counts whole seconds.         *)
TimeoutNotEarly ==
  [][Radio = "SOAPYSDR" /\ pc = "read" /\ pc' = "flush"
       => quiet >= Timeout * TicksPerSecond]_allVars

(* A stop that comes after dsss_transfer_start() has cleared the flags ends *)
(* the reception.                                                           *)
StopInterrupts == pc # "created" /\ Stopped ~> pc = "done"

(* dsss-transfer.h:54 "number of seconds after which reception will be      *)
(* stopped if no frame has been received": with a timeout, a reception ends *)
(* once no frame arrives any more, in the middle of a frame, after noise,   *)
(* even if the radio gives nothing any more.                                *)
TimeoutEndsReception == pc # "created" ~> pc = "done"
=============================================================================
