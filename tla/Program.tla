------------------------------- MODULE Program -------------------------------
(***************************************************************************)
(* main() of src/src/main.c: the life of a process that makes one transfer, *)
(* around the call of dsss_transfer_start(), which SendFrames or            *)
(* ReceiveFrames models: pc and stop are theirs.  The option -h, which only *)
(* prints, is left out.                                                     *)
(***************************************************************************)

VARIABLES
  stage,   (* how far main() has come                                         *)
  pc,      (* where the transfer is                                           *)
  stop     (* the global stop flag                                            *)

Stages == {"options", "create", "transfer", "pause", "exited", "failed", "killed"}

Init == stage = "options"

Ended == stage \in {"exited", "failed", "killed"}

(* The options are read, then the signal handlers are installed. *)
ParseOptions ==
  /\ stage = "options"
  /\ stage' \in {"create", "failed"}
  /\ UNCHANGED <<pc, stop>>

(* dsss_transfer_create() *)
Create ==
  /\ stage = "create"
  /\ stage' \in {"transfer", "failed"}
  /\ UNCHANGED <<pc, stop>>

(* dsss_transfer_start() has returned: the final delay. *)
Return ==
  /\ stage = "transfer" /\ pc = "done"
  /\ stage' = "pause"
  /\ UNCHANGED <<pc, stop>>

(* The delay is over, or a signal has interrupted it; dsss_transfer_free(), *)
(* then the end of the process.                                             *)
Exit ==
  /\ stage = "pause"
  /\ stage' = "exited"
  /\ UNCHANGED <<pc, stop>>

(* SIGINT, SIGTERM or SIGABRT. *)
Signal ==
  \/ /\ stage = "options"
     /\ stage' = "killed"
     /\ UNCHANGED <<pc, stop>>
  \/ /\ stage \in {"create", "transfer", "pause"}
     /\ stop' = TRUE
     /\ UNCHANGED <<stage, pc>>

(* SIGPIPE, which has no handler. *)
BrokenPipe ==
  /\ stage \in {"transfer", "pause"}
  /\ stage' = "killed"
  /\ UNCHANGED stop
=============================================================================
