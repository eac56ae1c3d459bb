------------------------------- MODULE DataLink -------------------------------
(***************************************************************************)
(* Two processes with the IO pseudo-radio, a sender and a receiver, joined  *)
(* by a pipe: "dsss-transfer -t ... | dsss-transfer ...", the way           *)
(* tests/test-program.sh does it through a file.  Each is a Program around  *)
(* its transfer.  What the sender has made, the sequence air, goes through  *)
(* the buffer of its standard output before it is in the pipe.              *)
(***************************************************************************)
EXTENDS Samples, SequencesExt

CONSTANTS
  Id, DataSize, PayloadSize, CounterValues, MaxIdle,
  BlockSize,          (* frame_samples_size, the same on both sides            *)
  StdoutSize,         (* samples in the stdio buffer of standard output        *)
  ReceiverDelay,      (* the delay of the resampler of the receiver            *)
  Source

(* The radio is sampled at least as fast as the frames.  Where a sample of  *)
(* the radio lies between two samples of a frame, the resamplers of Samples *)
(* copy one of the two; the delay of the receiver must not lead them to     *)
(* choose differently (a whole ratio leaves no choice).  For the rest, what *)
(* SendFrames and ReceiveFrames assume.                                     *)
ASSUME LinkAssumption ==
  /\ Decimation <= Interpolation
  /\ ReceiverDelay \in Nat \ {0}
  /\ (ReceiverDelay * Decimation) % Interpolation >= Decimation - 1
  /\ DataSize \in Nat
  /\ PayloadSize \in Nat \ {0}
  /\ CounterValues \in Nat \ {0}
  /\ MaxIdle \in Nat
  /\ BlockSize \in Nat \ {0}
  /\ StdoutSize \in Nat \ {0}
  /\ Source \in {"file", "stdin"}

VARIABLES
  senderStage, senderStop, senderTransferStop, senderPc, avail, sourceClosed,
  pos, eof, idle, sent, frame, counter, pad, ending, senderLine, senderPhase,
  chunk, chunkSize, burst, senderDump,
  air,
  receiverStage, receiverStop, receiverTransferStop, receiverPc,
  rpos, lost, receiverLine, receiverPhase, pending, sync, delivered,
  receiverDump, subsecond, elapsed, quiet,
  cutShort    (* history: the loop of the receiver has seen a stop flag         *)

SenderProgram == INSTANCE Program WITH
                   stage <- senderStage, stop <- senderStop, pc <- senderPc

ReceiverProgram == INSTANCE Program WITH
                     stage <- receiverStage, stop <- receiverStop, pc <- receiverPc

(* Full buffers have been written. *)
Flushed == SubSeq(air, 1, Len(air) - (Len(air) % StdoutSize))

(* What the sender has written to the pipe: the rest of the buffer follows  *)
(* when the process exits, not when the transfer is over or is freed.       *)
Written == IF senderStage = "exited" THEN air ELSE Flushed

(* Nobody writes to the pipe any more. *)
PipeClosed == SenderProgram!Ended

S == INSTANCE SendFrames WITH
       Radio <- "IO", MTU <- 0,
       stop <- senderStop, transferStop <- senderTransferStop, pc <- senderPc,
       closed <- sourceClosed, line <- senderLine, phase <- senderPhase,
       dump <- senderDump

R == INSTANCE ReceiveFrames WITH
       Interpolation <- Decimation, Decimation <- Interpolation,
       Delay <- ReceiverDelay,
       Radio <- "IO", FrameSize <- BlockSize,
       Timeout <- 0, TicksPerSecond <- 1, MaxLost <- 0,
       stop <- receiverStop, transferStop <- receiverTransferStop,
       pc <- receiverPc, air <- Written, closed <- PipeClosed,
       line <- receiverLine, phase <- receiverPhase, dump <- receiverDump

senderTransfer == <<senderTransferStop, avail, sourceClosed, pos, eof, idle,
                    sent, frame, counter, pad, ending, senderLine, senderPhase,
                    chunk, chunkSize, burst, senderDump, air>>
senderVars == <<senderStage, senderStop, senderPc, senderTransfer>>
receiverTransfer == <<receiverTransferStop, rpos, lost, receiverLine,
                      receiverPhase, pending, sync, delivered, receiverDump,
                      subsecond, elapsed, quiet, cutShort>>
receiverVars == <<receiverStage, receiverStop, receiverPc, receiverTransfer>>
vars == <<senderVars, receiverVars>>
-----------------------------------------------------------------------------
Init ==
  /\ SenderProgram!Init /\ ReceiverProgram!Init
  /\ S!Init /\ R!Init
  /\ cutShort = FALSE

Unread == ReceiverProgram!Ended

(* A step of the transfer; a buffer that is written to a pipe that nobody   *)
(* reads kills the process.                                                 *)
SenderTransfers ==
  /\ senderStage = "transfer" /\ S!ThreadStep
  /\ senderStage' = IF Unread /\ Flushed' # Flushed THEN "killed" ELSE senderStage

SenderRuns ==
  /\ \/ SenderProgram!ParseOptions
     \/ SenderProgram!Create
     \/ SenderProgram!Return
     \/ ~(Unread /\ Flushed # air) /\ SenderProgram!Exit
     \/ /\ Unread /\ Flushed # air
        /\ senderStage = "pause" /\ SenderProgram!BrokenPipe
        /\ UNCHANGED senderPc
  /\ UNCHANGED senderTransfer

SenderStep == (SenderTransfers \/ SenderRuns) /\ UNCHANGED receiverVars

ReceiverTransfers ==
  /\ receiverStage = "transfer" /\ R!ThreadStep
  /\ cutShort' = (cutShort \/ (receiverPc = "loop" /\ R!Stopped))
  /\ UNCHANGED receiverStage

ReceiverRuns ==
  /\ \/ ReceiverProgram!ParseOptions
     \/ ReceiverProgram!Create
     \/ ReceiverProgram!Return
     \/ ReceiverProgram!Exit
  /\ UNCHANGED receiverTransfer

ReceiverStep == UNCHANGED senderVars /\ (ReceiverTransfers \/ ReceiverRuns)

SignalSender ==
  SenderProgram!Signal /\ UNCHANGED <<senderTransfer, receiverVars>>

SignalReceiver ==
  ReceiverProgram!Signal /\ UNCHANGED <<senderVars, receiverTransfer>>

(* The process that writes to the standard input of the sender. *)
Produce ==
  /\ ~PipeClosed
  /\ S!Produce \/ S!CloseSource
  /\ UNCHANGED <<senderStage, receiverVars>>

Ended == PipeClosed /\ ReceiverProgram!Ended /\ UNCHANGED vars

Next ==
  \/ SenderStep \/ ReceiverStep
  \/ SignalSender \/ SignalReceiver \/ Produce \/ Ended

(* Both processes are scheduled. *)
Spec ==
  /\ Init /\ [][Next]_vars
  /\ WF_vars(SenderStep) /\ WF_vars(ReceiverStep)
-----------------------------------------------------------------------------
(* The refinement: the link implements the delivery of payloads. *)
State ==
  IF receiverPc # "done" THEN "open"
  ELSE IF cutShort THEN "cut" ELSE "complete"

Delivery == INSTANCE FrameDelivery WITH
              Payloads <- {S!Units(first, n) : first \in 0 .. DataSize,
                                              n \in 1 .. PayloadSize},
              got <- delivered, state <- State

(* Every step of the link is a step of the delivery or leaves it alone: no  *)
(* payload is lost, repeated, altered or overtaken, wherever the blocks are *)
(* cut, whenever the sender has nothing to send, whatever waits in the      *)
(* buffer and whenever one of the two processes is stopped, fails or is     *)
(* killed; a receiver that was not stopped has them all.                    *)
ImplementsDelivery == Delivery!Spec

(* tests/test-library-file.c: the data received is the data sent, once both *)
(* processes have exited, unless one of the two was stopped.                *)
RoundTrip ==
  senderStage = "exited" /\ receiverStage = "exited" /\ ~S!Stopped /\ ~cutShort =>
    FlattenSeq(delivered) = S!Units(0, avail) /\ sourceClosed

(* Both processes end after the end of the data. *)
LinkEnds == sourceClosed ~> PipeClosed /\ ReceiverProgram!Ended

(* A stopped sender ends the receiver too. *)
StopPropagates ==
  senderPc # "created" /\ S!Stopped ~> PipeClosed /\ ReceiverProgram!Ended
=============================================================================
