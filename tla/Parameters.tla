------------------------------ MODULE Parameters ------------------------------
(***************************************************************************)
(* The sizes that src/src/dsss-transfer.c derives from the options of a     *)
(* transfer, which are constants for SendFrames and ReceiveFrames.  The     *)
(* code computes them in floating point: here, but for its roundings, ppm   *)
(* being a whole number.                                                    *)
(***************************************************************************)
EXTENDS Integers

Positive == Nat \ {0}

Least(a, b) == IF a < b THEN a ELSE b
Most(a, b) == IF a < b THEN b ELSE a

(* n \div d, rounded up. *)
Ceiling(n, d) == (n + d - 1) \div d

Million == 1000 * 1000

(* The sample rate, with the error of the clock corrected. *)
Corrected(rate, ppm) == (rate * (Million - ppm)) \div Million

(* transfer->sample_rate: there are two audio samples for an IQ sample. *)
SampleRate(rate, ppm, audio) ==
  IF audio THEN Corrected(rate, ppm) \div 2 ELSE Corrected(rate, ppm)

(* payload_size, in bytes: 100 ms of data, within bounds. *)
PayloadSize(bitRate) == Least(Most((bitRate \div 8) \div 10, 16), 8000)

(* bit_rate * samples_per_bit: samples of a frame in a second. *)
FrameSampleRate(bitRate, spreading) == bitRate * (spreading * 2)

(* frame_samples_size: 50 ms of them. *)
FrameSamplesSize(bitRate, spreading) ==
  Ceiling(FrameSampleRate(bitRate, spreading), 20)

(* samples_size in send_frames(): what the resampler makes of a block and a *)
(* delay.                                                                   *)
SendSamplesSize(rate, bitRate, spreading, delay) ==
  Ceiling((FrameSamplesSize(bitRate, spreading) + delay) * rate,
          FrameSampleRate(bitRate, spreading))

(* samples_size in receive_frames(): what the resampler makes a block of. *)
ReceiveSamplesSize(rate, bitRate, spreading) ==
  (FrameSamplesSize(bitRate, spreading) * rate) \div FrameSampleRate(bitRate, spreading)
=============================================================================
