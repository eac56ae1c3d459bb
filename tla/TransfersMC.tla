----------------------------- MODULE TransfersMC -----------------------------
(* Parameters of dsss_transfer_create(). *)
EXTENDS Transfers

Option(radio, emit, audio, dump, source) ==
  [radio |-> radio, emit |-> emit, audio |-> audio, dump |-> dump,
   source |-> source, tuning |-> TRUE, coding |-> TRUE, spreading |-> 64]

(* Each kind of radio, of source, and each reason for which a creation is   *)
(* refused.                                                                 *)
SomeOptions ==
  {Option("IO", TRUE, TRUE, FALSE, "std"),
   Option("FILENAME", FALSE, FALSE, TRUE, "file"),
   Option("SOAPYSDR", TRUE, FALSE, TRUE, "callback"),
   Option("SOAPYSDR", FALSE, TRUE, FALSE, "std"),
   [Option("IO", TRUE, FALSE, FALSE, "std") EXCEPT !.tuning = FALSE],
   [Option("IO", TRUE, FALSE, FALSE, "std") EXCEPT !.coding = FALSE]}

StdOptions ==
  {Option("IO", TRUE, TRUE, FALSE, "std"), Option("SOAPYSDR", FALSE, FALSE, TRUE, "std")}

(* Spreading factors on both sides of the limits, in both directions. *)
SpreadingOptions ==
  {[Option("IO", emit, FALSE, FALSE, "callback") EXCEPT !.spreading = n] :
     emit \in BOOLEAN, n \in {0, 1, 2, 64, 65}}
=============================================================================
