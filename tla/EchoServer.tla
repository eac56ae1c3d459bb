------------------------------ MODULE EchoServer ------------------------------
(***************************************************************************)
(* src/examples/echo-server.c: a server and its clients, each a process     *)
(* with a half-duplex radio.  transmit() and receive_1() are modelled as    *)
(* SendFrames and ReceiveFrames allow: a frame is heard by any of the       *)
(* stations that listen, or lost.  At 100 b/s the header of a frame lasts   *)
(* more than half a second, and the stop flags are tested every 50 ms, so   *)
(* that a reception that was asked to stop ends before a second frame.      *)
(***************************************************************************)
EXTENDS Integers, Sequences, SequencesExt

CONSTANTS
  Server,        (* the process that runs server()                            *)
  Client,        (* the processes that run client()                           *)
  Message,       (* the message of each client                                *)
  PayloadSize,   (* bytes of a frame: 16 at 100 b/s                            *)
  BufferSize,    (* sizeof(data)                                              *)
  Junk,          (* the contents of memory that is not initialized            *)
  MaxFailures    (* bound: creations of transfers that fail                   *)

ASSUME EchoAssumption ==
  /\ Server \notin Client
  /\ Message \in [Client -> Seq(Nat)]
  /\ PayloadSize \in Nat \ {0} /\ BufferSize \in Nat
  /\ PayloadSize < BufferSize     \* a frame fits in the buffer
  /\ Junk \in Nat
  /\ MaxFailures \in Nat

Station == Client \cup {Server}

VARIABLES
  pc,           (* where each process is                                      *)
  stop,         (* the stop flag of the library                               *)
  stopLoop,     (* stop_loop of the server, the only one that is read         *)
  data, size,   (* the buffer that receives, and the size of its contents     *)
  done,         (* message.done of the current transfer                       *)
  printed,      (* what a client has printed as received                      *)
  request,      (* history: the payload that the server answers               *)
  failures,     (* history: transfers that could not be created               *)
  starts        (* history: transfers the server started since the signal     *)

history == <<request, failures, starts>>
vars == <<pc, stop, stopLoop, data, size, done, printed, history>>

Least(a, b) == IF a < b THEN a ELSE b

Init ==
  /\ pc = [p \in Station |-> IF p = Server THEN "loop" ELSE "tx_create"]
  /\ stop = [p \in Station |-> FALSE]
  /\ stopLoop = FALSE
  /\ data = [p \in Station |-> [i \in 1 .. BufferSize |-> Junk]]
  /\ size = [p \in Station |-> BufferSize - 1]
  /\ done = [p \in Station |-> 0]
  /\ printed = [c \in Client |-> <<>>]
  /\ request = <<>> /\ failures = 0 /\ starts = 0

Goto(p, next) == pc' = [pc EXCEPT ![p] = next]

(* dsss_transfer_start() clears the stop flag. *)
StartTransfer(p) ==
  /\ stop' = [stop EXCEPT ![p] = FALSE]
  /\ starts' = IF p = Server /\ stopLoop THEN starts + 1 ELSE starts
  /\ UNCHANGED <<stopLoop, data, size, done, printed, request, failures>>

(* dsss_transfer_create_callback() for the transfer of a new message. *)
CreateTransfer(p, created, failed) ==
  /\ \/ Goto(p, created) /\ UNCHANGED failures
     \/ Goto(p, failed) /\ failures < MaxFailures /\ failures' = failures + 1
  /\ done' = [done EXCEPT ![p] = 0]
  /\ UNCHANGED <<stop, stopLoop, data, size, printed, request, starts>>
-----------------------------------------------------------------------------
(* receive_1() *)
CreateReceiver(p) == pc[p] = "rx_create" /\ CreateTransfer(p, "rx_start", "rx_done")

StartReceiver(p) == pc[p] = "rx_start" /\ Goto(p, "rx") /\ StartTransfer(p)

(* Mutant: only a message ends the reception. *)
LeaveReceiver_FrameOnly(p) ==
  /\ pc[p] = "rx" /\ stop[p] /\ done[p] > 0
  /\ size' = [size EXCEPT ![p] = done[p]]
  /\ Goto(p, "rx_done")
  /\ UNCHANGED <<stop, stopLoop, data, done, printed, history>>

(* The reception ends on a stop, requested by the callback or a signal. *)
LeaveReceiver(p) ==
  /\ pc[p] = "rx" /\ stop[p]
  /\ size' = [size EXCEPT ![p] = done[p]]
  /\ Goto(p, "rx_done")
  /\ UNCHANGED <<stop, stopLoop, data, done, printed, history>>

(* The stations that may hear a frame to its end: a first one. *)
Listening == {p \in Station : pc[p] = "rx" /\ done[p] = 0}

(* reception_callback(): the length of what it copies, and the buffer. *)
Kept(p, payload) == Least(Len(payload), size[p])

Copied(p, payload) ==
  [i \in 1 .. BufferSize |-> IF i <= Kept(p, payload) THEN payload[i] ELSE data[p][i]]
-----------------------------------------------------------------------------
(* transmit() *)
CreateSender(p) ==
  /\ pc[p] = "tx_create"
  /\ CreateTransfer(p, "tx_start", IF p = Server THEN "loop" ELSE "rx_create")

StartSender(p) == pc[p] = "tx_start" /\ Goto(p, "tx") /\ StartTransfer(p)

Sending(p) == IF p = Server THEN SubSeq(data[p], 1, size[p]) ELSE Message[p]

(* Mutant: each frame carries the beginning of the message. *)
Payload_FromStart(p) ==
  SubSeq(Sending(p), 1, Least(PayloadSize, Len(Sending(p)) - done[p]))

(* transmission_callback(): the next part of the message. *)
Payload(p) ==
  SubSeq(Sending(p), done[p] + 1, Least(done[p] + PayloadSize, Len(Sending(p))))

(* Mutant: as if every frame was full. *)
Advance_FullFrame(p) == done[p] + PayloadSize

Advance(p) == done[p] + Len(Payload(p))

(* A frame goes out.  Some of the stations that listen hear it and call     *)
(* reception_callback(); none does if a stop cuts the frame.                *)
SendFrame(p) ==
  /\ pc[p] = "tx" /\ ~stop[p] /\ done[p] < Len(Sending(p))
  /\ \E heard \in SUBSET Listening :
       /\ data' = [q \in Station |->
                     IF q \in heard THEN Copied(q, Payload(p)) ELSE data[q]]
       /\ done' = [q \in Station |->
                     IF q = p THEN Advance(p)
                     ELSE IF q \in heard THEN Kept(q, Payload(p)) ELSE done[q]]
       /\ stop' = [q \in Station |-> stop[q] \/ q \in heard]
       /\ request' = IF Server \in heard THEN Payload(p) ELSE request
  /\ UNCHANGED <<pc, stopLoop, size, printed, failures, starts>>

(* transmission_callback() finds the end, or a stop is requested; then the  *)
(* delay of one second and dsss_transfer_free().                            *)
LeaveSender(p) ==
  /\ pc[p] = "tx" /\ (stop[p] \/ done[p] = Len(Sending(p)))
  /\ Goto(p, IF p = Server THEN "loop" ELSE "rx_create")
  /\ UNCHANGED <<stop, stopLoop, data, size, done, printed, history>>
-----------------------------------------------------------------------------
(* server() *)

(* Mutant: the loop does not end. *)
ServerLoop_Endless ==
  /\ pc[Server] = "loop"
  /\ Goto(Server, "rx_create") /\ size' = [size EXCEPT ![Server] = BufferSize - 1]
  /\ UNCHANGED <<stop, stopLoop, data, done, printed, history>>

(* The test of the loop; the whole buffer, but for the final NUL, is for *)
(* the next message.                                                        *)
ServerLoop ==
  /\ pc[Server] = "loop"
  /\ \/ stopLoop /\ Goto(Server, "exited") /\ UNCHANGED size
     \/ /\ ~stopLoop
        /\ Goto(Server, "rx_create") /\ size' = [size EXCEPT ![Server] = BufferSize - 1]
  /\ UNCHANGED <<stop, stopLoop, data, done, printed, history>>

Swap(s, i, j) == [s EXCEPT ![i] = s[j], ![j] = s[i]]

(* Mutant: the loop goes over all the bytes. *)
ProcessRequest_AllBytes(s, n) ==
  LET swapped[i \in 0 .. n] ==
        IF i = 0 THEN s ELSE Swap(swapped[i - 1], i, n + 1 - i)
  IN  swapped[n]

(* process_request(): the first n bytes, swapped two by two. *)
ProcessRequest(s, n) ==
  LET swapped[i \in 0 .. n \div 2] ==
        IF i = 0 THEN s ELSE Swap(swapped[i - 1], i, n + 1 - i)
  IN  swapped[n \div 2]

(* The NUL that ends the string. *)
Terminated(s, n) == [s EXCEPT ![n + 1] = 0]

ServerReceived ==
  /\ pc[Server] = "rx_done"
  /\ \/ stopLoop /\ Goto(Server, "exited") /\ UNCHANGED data
     \/ /\ ~stopLoop
        /\ Goto(Server, "sleep")
        /\ data' = [data EXCEPT ![Server] = ProcessRequest(Terminated(@, size[Server]), size[Server])]
  /\ UNCHANGED <<stop, stopLoop, size, done, printed, history>>

(* sleep(1), which a signal interrupts. *)
ServerSlept ==
  /\ pc[Server] = "sleep"
  /\ Goto(Server, IF stopLoop THEN "exited" ELSE "tx_create")
  /\ UNCHANGED <<stop, stopLoop, data, size, done, printed, history>>

(* client(), which does not look at stop_loop. *)
ClientReceived(c) ==
  /\ pc[c] = "rx_done"
  /\ data' = [data EXCEPT ![c] = Terminated(@, size[c])]
  /\ printed' = [printed EXCEPT ![c] = SubSeq(data[c], 1, size[c])]
  /\ Goto(c, "exited")
  /\ UNCHANGED <<stop, stopLoop, size, done, history>>

(* signal_handler() *)
Signal(p) ==
  /\ pc[p] # "exited"
  /\ stop' = [stop EXCEPT ![p] = TRUE]
  /\ stopLoop' = (stopLoop \/ p = Server)
  /\ UNCHANGED <<pc, data, size, done, printed, history>>

Step(p) ==
  \/ CreateReceiver(p) \/ StartReceiver(p) \/ LeaveReceiver(p)
  \/ CreateSender(p) \/ StartSender(p) \/ SendFrame(p) \/ LeaveSender(p)
  \/ p = Server /\ (ServerLoop \/ ServerReceived \/ ServerSlept)
  \/ p \in Client /\ ClientReceived(p)

Ended == (\A p \in Station : pc[p] = "exited") /\ UNCHANGED vars

Next == (\E p \in Station : Step(p) \/ Signal(p)) \/ Ended

(* Each process is scheduled. *)
Spec == Init /\ [][Next]_vars /\ \A p \in Station : WF_vars(Step(p))
-----------------------------------------------------------------------------
Places == {"loop", "rx_create", "rx_start", "rx", "rx_done", "sleep", "tx_create",
           "tx_start", "tx", "exited"}

Bytes == (UNION {Range(Message[c]) : c \in Client}) \cup {0, Junk}

(* The values of the variables. *)
TypeOK ==
  /\ pc \in [Station -> Places]
  /\ stop \in [Station -> BOOLEAN] /\ stopLoop \in BOOLEAN
  /\ data \in [Station -> [1 .. BufferSize -> Bytes]]
  /\ size \in [Station -> 0 .. BufferSize - 1]
  /\ \A p \in Station : done[p] \in 0 .. Len(Sending(p)) \cup 0 .. BufferSize - 1

(* What the server sends, from the creation of the sender to its return, is *)
(* the reverse of the payload that it has heard last, whatever the buffer   *)
(* still holds of earlier messages, unless a radio failed.  A payload is    *)
(* what one frame carries: of a longer message the rest is not heard.       *)
SendsReverse ==
  pc[Server] \in {"tx_create", "tx_start", "tx"} /\ failures = 0 =>
    Sending(Server) = Reverse(request)

(* The parts of a message that frames carry. *)
Parts(message) ==
  {SubSeq(message, i * PayloadSize + 1, Least((i + 1) * PayloadSize, Len(message))) :
     i \in 0 .. Len(message) \div PayloadSize}

(* What a client prints is the reverse of one part of a message, or a part  *)
(* of the message of another client that it took for the answer, or nothing *)
(* if it was interrupted: never a mix of frames or bytes of nobody, unless  *)
(* a radio failed.                                                          *)
PrintsAnswer ==
  \A c \in Client :
    printed[c] # <<>> /\ failures = 0 =>
      \/ \E d \in Client : Reverse(printed[c]) \in Parts(Message[d])
      \/ \E d \in Client \ {c} : printed[c] \in Parts(Message[d])

(* After a signal the server starts at most one more transfer, wherever the *)
(* signal comes.                                                            *)
AtMostOneMore == starts <= 1

(* A signal ends the server, but for a reception whose start has cleared    *)
(* the flag and that waits for a frame.                                     *)
SignalEndsServer ==
  stopLoop ~> pc[Server] = "exited" \/ (pc[Server] = "rx" /\ ~stop[Server])
=============================================================================
