------------------------------ MODULE Samples ------------------------------
(***************************************************************************)
(* The sample streams that dsss-transfer exchanges with liquid-dsp.        *)
(*                                                                         *)
(* The frame generator, the frame synchronizer and the resampler are       *)
(* library objects: they are modelled from how src/src/dsss-transfer.c     *)
(* uses them.  A sample is a value that is only compared with others: the  *)
(* k-th sample of the frame that carries a payload under a header, the     *)
(* zero sample, or noise.                                                  *)
(***************************************************************************)
EXTENDS Integers, Sequences

CONSTANTS
  HeaderLen,      (* samples of a frame before its payload                   *)
  Delay,          (* msresamp_crcf_get_delay(), rounded up, in input samples *)
  Interpolation,  (* the resampling ratio is Interpolation / Decimation      *)
  Decimation

ASSUME SamplesAssumption ==
  /\ HeaderLen \in Nat \ {0}
  /\ Delay \in Nat \ {0}
  /\ Interpolation \in Nat \ {0}
  /\ Decimation \in Nat \ {0}

(* An output sample in which nothing is transmitted. *)
Zero == <<>>

(* A received sample that belongs to no frame. *)
Noise == <<"noise">>

(* The 8-byte header: the 4-byte transfer id, then the frame counter. *)
Header(id, counter) == <<id, counter>>

(* What dsssframegen_write_samples() yields for a frame, one payload unit *)
(* to a sample.                                                           *)
FrameSamples(header, payload) ==
  [k \in 1 .. HeaderLen + Len(payload) |-> <<header, payload, k>>]

-----------------------------------------------------------------------------
(* msresamp_crcf_execute(): a sample comes out of the filter Delay samples  *)
(* after it went in, and the samples that come out are resampled.           *)

EmptyLine == [i \in 1 .. Delay |-> Zero]

Emerging(line, in) == SubSeq(line \o in, 1, Len(in))

Staying(line, in) == SubSeq(line \o in, Len(in) + 1, Len(in) + Delay)

(* The number of output samples for n more input samples; phase is what is  *)
(* left, in 1/Decimation-ths of an output sample, of the previous ones.     *)
OutputLen(phase, n) == (phase + n * Interpolation) \div Decimation

NextPhase(phase, n) == (phase + n * Interpolation) % Decimation

(* The input sample that output sample j is made from. *)
Position(phase, j) ==
  (j * Decimation - phase + Interpolation - 1) \div Interpolation

Resample(phase, s) ==
  [j \in 1 .. OutputLen(phase, Len(s)) |-> s[Position(phase, j)]]
-----------------------------------------------------------------------------
(* The samples of part are in s, one right after the other. *)
Within(part, s) ==
  \E at \in 0 .. Len(s) - Len(part) : \A k \in 1 .. Len(part) : s[at + k] = part[k]
=============================================================================
