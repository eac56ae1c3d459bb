------------------------------ MODULE Transfers ------------------------------
(***************************************************************************)
(* The life of the transfers of one process, from dsss_transfer_create() or *)
(* dsss_transfer_create_callback() to dsss_transfer_free(), with what each  *)
(* of them holds, and the stop flags: one of each transfer and one that all *)
(* of them share.  What a running transfer does is left to SendFrames and   *)
(* ReceiveFrames; here it only tests the flags.                             *)
(***************************************************************************)
EXTENDS Naturals

CONSTANTS
  Transfer,    (* the handles                                                 *)
  Options      (* parameters of the calls of dsss_transfer_create()           *)

(* radio, emit, audio, dump, source ("file", "std" or "callback"), spreading, *)
(* whether the sample rate and the frequency are acceptable (tuning), and the *)
(* bit rate, the names of the error codes and the id (coding).                *)
ASSUME TransfersAssumption ==
  \A o \in Options :
    /\ o.radio \in {"IO", "FILENAME", "SOAPYSDR"}
    /\ o.source \in {"file", "std", "callback"}
    /\ {o.emit, o.audio, o.dump, o.tuning, o.coding} \subseteq BOOLEAN
    /\ o.spreading \in Nat

VARIABLES
  stop,            (* the global stop flag                                    *)
  transferStop,    (* transfer->stop                                          *)
  pc,              (* how far the creation has come, then the state           *)
  option,          (* the parameters                                          *)
  held,            (* memory, files and devices that belong to the transfer   *)
  std,             (* standard streams that are open                          *)
  exited           (* the process has ended                                   *)

vars == <<stop, transferStop, pc, option, held, std, exited>>

NoOption == [radio |-> "none"]

Init ==
  /\ stop = FALSE
  /\ transferStop = [t \in Transfer |-> FALSE]
  /\ pc = [t \in Transfer |-> "none"]
  /\ option = [t \in Transfer |-> NoOption]
  /\ held = [t \in Transfer |-> {}]
  /\ std = {"stdin", "stdout"}
  /\ exited = FALSE
-----------------------------------------------------------------------------
(* A step of the creation: from one test to the next. *)
Goto(t, next) == pc' = [pc EXCEPT ![t] = next]

Acquire(t, resources) == held' = [held EXCEPT ![t] = @ \cup resources]

(* An error return: the structure is freed, and what else is given up. *)
Fail(t, others) ==
  /\ Goto(t, "failed")
  /\ held' = [held EXCEPT ![t] = @ \ ({"transfer"} \cup others)]

Allocate(t, o) ==
  /\ pc[t] = "none"
  /\ option' = [option EXCEPT ![t] = o]
  /\ \/ Goto(t, "rates") /\ Acquire(t, {"transfer"})
     \/ Goto(t, "failed") /\ UNCHANGED held
  /\ transferStop' = [transferStop EXCEPT ![t] = FALSE]
  /\ UNCHANGED <<stop, std, exited>>

(* Mutant: the type of the radio is not tested. *)
SetRates_AnyRadio(t) ==
  /\ pc[t] = "rates"
  /\ LET o == option[t]
     IN  \/ ~o.tuning /\ Fail(t, {})
         \/ o.tuning /\ ~o.audio /\ Goto(t, "parameters") /\ UNCHANGED held
         \/ o.tuning /\ o.audio /\ Goto(t, "parameters") /\ Acquire(t, {"converter"})
  /\ UNCHANGED <<stop, transferStop, option, std, exited>>

(* The sample rate, the frequency, then the audio converter. *)
SetRates(t) ==
  /\ pc[t] = "rates"
  /\ LET o == option[t]
     IN  \/ (~o.tuning \/ (o.audio /\ o.radio = "SOAPYSDR")) /\ Fail(t, {})
         \/ o.tuning /\ ~o.audio /\ Goto(t, "parameters") /\ UNCHANGED held
         \/ /\ o.tuning /\ o.audio /\ o.radio # "SOAPYSDR"
            /\ Goto(t, "parameters") /\ Acquire(t, {"converter"})
  /\ UNCHANGED <<stop, transferStop, option, std, exited>>

(* The bit rate, the spreading factor, the error codes and the id. *)
SpreadingAccepted(n) == n >= 2

SetParameters(t) ==
  /\ pc[t] = "parameters"
  /\ LET o == option[t]
         accepted == o.coding /\ SpreadingAccepted(o.spreading)
     IN  \/ ~accepted /\ Fail(t, {})
         \/ accepted /\ Goto(t, "dump") /\ UNCHANGED held
  /\ UNCHANGED <<stop, transferStop, option, std, exited>>

OpenDump(t) ==
  /\ pc[t] = "dump"
  /\ \/ ~option[t].dump /\ Goto(t, "radio") /\ UNCHANGED held
     \/ option[t].dump /\ Goto(t, "radio") /\ Acquire(t, {"dump"})
     \/ option[t].dump /\ Fail(t, {})
  /\ UNCHANGED <<stop, transferStop, option, std, exited>>

OpenRadio(t) ==
  /\ pc[t] = "radio"
  /\ LET radio == option[t].radio
     IN  \/ radio = "IO" /\ Goto(t, "file") /\ UNCHANGED held
         \/ radio = "FILENAME" /\ Goto(t, "file") /\ Acquire(t, {"radio"})
         \/ radio = "SOAPYSDR" /\ Goto(t, "stream") /\ Acquire(t, {"radio"})
         \/ radio # "IO" /\ Fail(t, {})
  /\ UNCHANGED <<stop, transferStop, option, std, exited>>

(* SOAPYSDR_CHECK: a radio that refuses a setting ends the process. *)
ConfigureRadio(t) ==
  /\ pc[t] = "stream"
  /\ exited' = TRUE
  /\ UNCHANGED <<stop, transferStop, pc, option, held, std>>

(* Mutant: the result of the call is not tested. *)
SetupStream_Unchecked(t) ==
  /\ pc[t] = "stream"
  /\ Goto(t, "file")
  /\ \/ Acquire(t, {"stream"})
     \/ UNCHANGED held
  /\ UNCHANGED <<stop, transferStop, option, std, exited>>

SetupStream(t) ==
  /\ pc[t] = "stream"
  /\ \/ Goto(t, "file") /\ Acquire(t, {"stream"})
     \/ Fail(t, {"radio"})
  /\ UNCHANGED <<stop, transferStop, option, std, exited>>

(* The data file of dsss_transfer_create(). *)
OpenFile(t) ==
  /\ pc[t] = "file"
  /\ \/ option[t].source = "callback" /\ Goto(t, "created") /\ UNCHANGED held
     \/ option[t].source # "callback" /\ Goto(t, "created") /\ Acquire(t, {"file"})
     \/ option[t].source = "file" /\ Fail(t, {})
  /\ UNCHANGED <<stop, transferStop, option, std, exited>>
-----------------------------------------------------------------------------
(* The standard stream that dsss_transfer_create() makes the data file. *)
StdStream(o) ==
  IF o.source # "std" THEN {} ELSE IF o.emit THEN {"stdin"} ELSE {"stdout"}

(* What dsssframegen_create_set() and dsssframesync_create_set() accept. *)
GeneratorAccepts(n) == ~(n < 2 \/ n > 64)

SynchronizerAccepts(n) == ~(n < 2 \/ n > 64)

SpreadingUsable(o) ==
  IF o.emit THEN GeneratorAccepts(o.spreading) ELSE SynchronizerAccepts(o.spreading)

(* Mutant: the flags of all the transfers are cleared. *)
Start_ClearsAll(t) ==
  /\ pc[t] \in {"created", "returned"}
  /\ stop' = FALSE
  /\ transferStop' = [u \in Transfer |-> FALSE]
  /\ Goto(t, "running")
  /\ exited' = ~SpreadingUsable(option[t])
  /\ UNCHANGED <<option, held, std>>

(* dsss_transfer_start(): both flags are cleared, then the loop runs.  With *)
(* a spreading factor that the frame generator or synchronizer refuses, its *)
(* NULL is dereferenced.                                                    *)
Start(t) ==
  /\ pc[t] \in {"created", "returned"}
  /\ stop' = FALSE
  /\ transferStop' = [transferStop EXCEPT ![t] = FALSE]
  /\ Goto(t, "running")
  /\ exited' = ~SpreadingUsable(option[t])
  /\ UNCHANGED <<option, held, std>>

(* Mutant: only the flag of the transfer is tested. *)
LeaveLoop_OwnOnly(t) ==
  /\ pc[t] = "running"
  /\ transferStop[t]
  /\ Goto(t, "returned")
  /\ UNCHANGED <<stop, transferStop, option, held, std, exited>>

LeaveLoop(t) ==
  /\ pc[t] = "running"
  /\ stop \/ transferStop[t]
  /\ Goto(t, "returned")
  /\ UNCHANGED <<stop, transferStop, option, held, std, exited>>

(* The data ends, or the timeout is exceeded. *)
Finish(t) ==
  /\ pc[t] = "running"
  /\ Goto(t, "returned")
  /\ UNCHANGED <<stop, transferStop, option, held, std, exited>>

Stop(t) ==
  /\ pc[t] \in {"created", "running", "returned"}
  /\ transferStop' = [transferStop EXCEPT ![t] = TRUE]
  /\ UNCHANGED <<stop, pc, option, held, std, exited>>

StopAll ==
  /\ stop' = TRUE
  /\ UNCHANGED <<transferStop, pc, option, held, std, exited>>

(* Mutant: only the radio, its stream and the structure are given up. *)
Released_RadioOnly(t) ==
  (CASE option[t].radio = "IO" -> {}
     [] option[t].radio = "FILENAME" -> {"radio"}
     [] option[t].radio = "SOAPYSDR" -> {"stream", "radio"})
  \cup {"transfer"}

(* What dsss_transfer_free() gives up: the radio according to its type, the *)
(* rest if it is there.                                                     *)
Released(t) ==
  ({"file", "dump", "converter"} \cap held[t])
  \cup (CASE option[t].radio = "IO" -> {}
          [] option[t].radio = "FILENAME" -> {"radio"}
          [] option[t].radio = "SOAPYSDR" -> {"stream", "radio"})
  \cup {"transfer"}

Release(t) ==
  /\ held' = [held EXCEPT ![t] = @ \ Released(t)]
  /\ std' = std \ StdStream(option[t])
  /\ Goto(t, "freed")
  /\ UNCHANGED <<stop, transferStop, option, exited>>

(* dsss_transfer_free(), of a transfer that does not run. *)
Free(t) == pc[t] \in {"created", "returned"} /\ Release(t)

CreateStep(t) ==
  \/ \E o \in Options : Allocate(t, o)
  \/ SetRates(t) \/ SetParameters(t) \/ OpenDump(t) \/ OpenRadio(t)
  \/ ConfigureRadio(t) \/ SetupStream(t) \/ OpenFile(t)

Next ==
  /\ ~exited
  /\ \/ \E t \in Transfer :
          \/ CreateStep(t)
          \/ Start(t) \/ LeaveLoop(t) \/ Finish(t) \/ Stop(t) \/ Free(t)
     \/ StopAll

(* A running transfer tests the flags again and again; nothing else has to  *)
(* happen.                                                                  *)
Spec ==
  /\ Init /\ [][Next]_vars
  /\ \A t \in Transfer : WF_vars(~exited /\ LeaveLoop(t))
-----------------------------------------------------------------------------
Resource == {"transfer", "converter", "dump", "radio", "stream", "file"}

(* The values of the variables. *)
Values ==
  /\ stop \in BOOLEAN /\ exited \in BOOLEAN
  /\ transferStop \in [Transfer -> BOOLEAN]
  /\ pc \in [Transfer -> {"none", "rates", "parameters", "dump", "radio", "stream",
                          "file", "created", "running", "returned", "freed", "failed"}]
  /\ option \in [Transfer -> Options \cup {NoOption}]
  /\ held \in [Transfer -> SUBSET Resource]
  /\ std \subseteq {"stdin", "stdout"}

(* The values of the variables; samples are converted to audio only for the *)
(* radios that are files (lines 750-766), whatever was asked for.           *)
TypeOK ==
  /\ Values
  /\ \A t \in Transfer : "converter" \in held[t] => option[t].radio # "SOAPYSDR"

(* What a transfer with these parameters works with. *)
Needed(o) ==
  {"transfer"}
  \cup (IF o.audio THEN {"converter"} ELSE {})
  \cup (IF o.dump THEN {"dump"} ELSE {})
  \cup (IF o.radio = "IO" THEN {} ELSE {"radio"})
  \cup (IF o.radio = "SOAPYSDR" THEN {"stream"} ELSE {})
  \cup (IF o.source = "callback" THEN {} ELSE {"file"})

(* A handle that dsss_transfer_create() returns holds all it works with and *)
(* nothing else, whichever errors its calls may meet.                       *)
HandleComplete ==
  \A t \in Transfer :
    pc[t] \in {"created", "running", "returned"} => held[t] = Needed(option[t])

(* dsss_transfer_free() gives up what the transfer holds and only that:     *)
(* nothing leaks, nothing is closed twice.                                  *)
FreedExactly ==
  \A t \in Transfer :
    /\ pc[t] \in {"created", "returned"} => Released(t) \subseteq held[t]
    /\ pc[t] = "freed" => held[t] = {}

(* dsss_transfer_stop() interrupts a running transfer, whatever the starts  *)
(* and stops of the others do to the shared flag.                           *)
StopInterrupts ==
  \A t \in Transfer : pc[t] = "running" /\ transferStop[t] ~> pc[t] # "running" \/ exited

(* dsss_transfer_stop_all() interrupts the running transfers if none is     *)
(* started meanwhile.                                                       *)
StopAllHolds ==
  \A t \in Transfer : pc[t] = "running" /\ stop ~> pc[t] # "running" \/ ~stop \/ exited

(* dsss-transfer.h:58 "If the transfer initialization fails, the function   *)
(* returns NULL": a handle that was created can be started.  The frame      *)
(* generator only knows spreading factors "between 2 and 64".               *)
CreatedCanStart ==
  \A t \in Transfer : pc[t] \in {"created", "running"} => option[t].spreading \in 2 .. 64

(* dsss-transfer.h:39 "if NULL, use stdin or stdout instead": the stream is *)
(* there while the transfer runs.                                           *)
StandardStreamOpen ==
  \A t \in Transfer : pc[t] = "running" => StdStream(option[t]) \subseteq std
=============================================================================
