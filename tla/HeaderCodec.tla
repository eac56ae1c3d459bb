----------------------------- MODULE HeaderCodec -----------------------------
(***************************************************************************)
(* The 8 bytes of a frame header: the id of the transfer, then the number   *)
(* of the frame, as send_frames() writes them and frame_received() reads    *)
(* them in src/src/dsss-transfer.c.                                         *)
(*                                                                          *)
(* The other modules take a header to be the pair of an id and a number;    *)
(* OperatorProofs shows that nothing is lost by it.                             *)
(***************************************************************************)
EXTENDS Integers, Sequences

Byte == 0 .. 255

(* A number of 32 bits. *)
Word == 256 * 256 * 256 * 256

Unsigned == 0 .. Word - 1

(* An identifier is a C string of at most 4 characters. *)
Identifier == {id \in Seq(1 .. 255) : Len(id) <= 4}

(* transfer->id: the structure is cleared before the string is copied. *)
IdBytes(id) == [i \in 1 .. 4 |-> IF i <= Len(id) THEN id[i] ELSE 0]

(* A shift by 8 bits. *)
Upper(n) == n \div 256

(* The bytes 4 to 7 of the header, the most significant first. *)
SetCounter(counter) ==
  << Upper(Upper(Upper(counter))) % 256, Upper(Upper(counter)) % 256,
     Upper(counter) % 256, counter % 256 >>

(* A byte is promoted to int before it is shifted, so that the highest one  *)
(* may make the int negative.  The bits of the four terms do not overlap:   *)
(* "or" is an addition.                                                     *)
ToInt(n) == IF n >= Word - n THEN n - Word ELSE n

(* The conversion of an int to unsigned. *)
ToUnsigned(n) == IF n < 0 THEN n + Word ELSE n

GetCounter(b) ==
  ToUnsigned(ToInt(b[1] * (256 * 256 * 256)) + b[2] * (256 * 256) + b[3] * 256 + b[4])

EncodeHeader(id, counter) ==
  [i \in 1 .. 8 |-> IF i <= 4 THEN IdBytes(id)[i] ELSE SetCounter(counter)[i - 4]]
=============================================================================
