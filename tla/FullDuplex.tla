------------------------------ MODULE FullDuplex ------------------------------
(***************************************************************************)
(* src/examples/full-duplex.c: a process with two transfers, each in a      *)
(* thread of its own, that main() creates, joins and frees.  The transfers  *)
(* and the flags they share are those of Transfers.                         *)
(***************************************************************************)
EXTENDS Transfers

VARIABLES
  main,     (* where main() is                                                *)
  threads   (* the transfers whose thread has been created                    *)

duplexVars == <<vars, main, threads>>

(* The arguments of the two calls of dsss_transfer_create(). *)
DuplexOption(t) ==
  [radio |-> "SOAPYSDR", emit |-> t = "uplink", audio |-> FALSE, dump |-> FALSE,
   source |-> "std", tuning |-> TRUE, coding |-> TRUE, spreading |-> 16]

DuplexOptions == {DuplexOption(t) : t \in {"downlink", "uplink"}}

(* The two handles of main(). *)
ASSUME DuplexAssumption ==
  /\ Transfer = {"downlink", "uplink"}
  /\ DuplexOptions \subseteq Options

DuplexInit == Init /\ main = "downlink" /\ threads = {}

(* main() ends, and the threads with it. *)
End(status) ==
  /\ main' = status
  /\ exited' = TRUE
  /\ UNCHANGED <<stop, transferStop, pc, option, held, std, threads>>

(* Mutant: a NULL is not tested. *)
CreateTransfer_Unchecked(t, next) ==
  /\ main = t
  /\ \/ Allocate(t, DuplexOption(t)) /\ UNCHANGED <<main, threads>>
     \/ /\ SetRates(t) \/ SetParameters(t) \/ OpenDump(t) \/ OpenRadio(t)
           \/ SetupStream(t) \/ OpenFile(t)
        /\ UNCHANGED <<main, threads>>
     \/ ConfigureRadio(t) /\ main' = "failure" /\ UNCHANGED threads
     \/ pc[t] \in {"created", "failed"} /\ main' = next /\ UNCHANGED <<vars, threads>>

(* A transfer is created, or main() returns a failure. *)
CreateTransfer(t, next) ==
  /\ main = t
  /\ \/ Allocate(t, DuplexOption(t)) /\ UNCHANGED <<main, threads>>
     \/ /\ SetRates(t) \/ SetParameters(t) \/ OpenDump(t) \/ OpenRadio(t)
           \/ SetupStream(t) \/ OpenFile(t)
        /\ UNCHANGED <<main, threads>>
     \/ ConfigureRadio(t) /\ main' = "failure" /\ UNCHANGED threads
     \/ pc[t] = "created" /\ main' = next /\ UNCHANGED <<vars, threads>>
     \/ pc[t] = "failed" /\ End("failure")

(* pthread_create() *)
StartDownlinkThread ==
  /\ main = "downlink_thread"
  /\ \/ /\ threads' = threads \cup {"downlink"}
        /\ main' = "uplink_thread"
        /\ UNCHANGED vars
     \/ End("failure")

StartUplinkThread ==
  /\ main = "uplink_thread"
  /\ \/ /\ threads' = threads \cup {"uplink"}
        /\ main' = "SIGINT"
     \/ main' = "give_up" /\ UNCHANGED threads
  /\ UNCHANGED vars

(* The second thread cannot be created: the first one is stopped, joined    *)
(* and its transfer freed.                                                  *)
GiveUp ==
  /\ main = "give_up"
  /\ StopAll
  /\ main' = "give_up_join" /\ UNCHANGED threads

(* signal(): the handler of a signal is installed. *)
Handle(signal, next) ==
  /\ main = signal
  /\ main' = next
  /\ UNCHANGED <<vars, threads>>

(* Mutant: main() does not wait for the thread. *)
Join_NoWait(from, t, next) ==
  /\ main = from
  /\ main' = next
  /\ UNCHANGED <<vars, threads>>

(* pthread_join() *)
Join(from, t, next) ==
  /\ main = from /\ pc[t] = "returned"
  /\ main' = next
  /\ UNCHANGED <<vars, threads>>

FreeTransfer(from, t, next) ==
  /\ main = from
  /\ Release(t)
  /\ main' = next /\ UNCHANGED threads

MainStep ==
  \/ CreateTransfer("downlink", "uplink")
  \/ CreateTransfer("uplink", "downlink_thread")
  \/ StartDownlinkThread \/ StartUplinkThread
  \/ GiveUp
  \/ Join("give_up_join", "downlink", "give_up_free")
  \/ FreeTransfer("give_up_free", "downlink", "give_up_end")
  \/ main = "give_up_end" /\ End("failure")
  \/ Handle("SIGINT", "SIGTERM") \/ Handle("SIGTERM", "SIGABRT")
  \/ Handle("SIGABRT", "join_uplink")
  \/ Join("join_uplink", "uplink", "join_downlink")
  \/ Join("join_downlink", "downlink", "free_uplink")
  \/ FreeTransfer("free_uplink", "uplink", "free_downlink")
  \/ FreeTransfer("free_downlink", "downlink", "end")
  \/ main = "end" /\ End("success")

(* transfer_thread() *)
ThreadStep(t) ==
  /\ t \in threads
  /\ \/ pc[t] = "created" /\ Start(t)
     \/ LeaveLoop(t)
  /\ UNCHANGED <<main, threads>>

(* The uplink also ends with its data; the downlink has no timeout. *)
EndOfData == "uplink" \in threads /\ Finish("uplink") /\ UNCHANGED <<main, threads>>

(* Where the signals are handled; elsewhere they kill the process. *)
AllHandled == {"join_uplink", "join_downlink", "free_uplink", "free_downlink", "end"}

Handled(signal) ==
  \/ main \in AllHandled
  \/ signal = "SIGINT" /\ main \in {"SIGTERM", "SIGABRT"}
  \/ signal = "SIGTERM" /\ main = "SIGABRT"

(* signal_handler(), or death. *)
Signal(signal) ==
  \/ Handled(signal) /\ StopAll /\ UNCHANGED <<main, threads>>
  \/ ~Handled(signal) /\ End("killed")

DuplexNext ==
  \/ /\ ~exited
     /\ \/ MainStep
        \/ \E t \in Transfer : ThreadStep(t)
        \/ EndOfData
        \/ \E signal \in {"SIGINT", "SIGTERM", "SIGABRT"} : Signal(signal)
  \/ exited /\ UNCHANGED duplexVars

(* main() and the threads are scheduled. *)
DuplexSpec ==
  /\ DuplexInit /\ [][DuplexNext]_duplexVars
  /\ WF_duplexVars(~exited /\ MainStep)
  /\ \A t \in Transfer : WF_duplexVars(~exited /\ ThreadStep(t))
-----------------------------------------------------------------------------
(* The values of the variables; a thread is given a transfer that has been  *)
(* created, not the NULL of a creation that failed.                         *)
DuplexTypeOK ==
  /\ TypeOK
  /\ main \in {"downlink", "uplink", "downlink_thread", "uplink_thread", "give_up",
               "give_up_join", "give_up_free", "give_up_end", "SIGINT", "SIGTERM",
               "SIGABRT", "success", "failure", "killed"} \cup AllHandled
  /\ threads \subseteq Transfer
  /\ \A t \in threads : pc[t] \in {"created", "running", "returned", "freed"}

(* A thread never works on a transfer that has been freed, on any path of   *)
(* main().                                                                  *)
FreedAfterUse ==
  [][\A t \in Transfer : pc'[t] = "freed" /\ pc[t] # "freed" =>
       pc[t] = "returned" \/ t \notin threads]_duplexVars

(* When main() returns with success both radios are released, and the       *)
(* standard streams of both directions have been given up.                  *)
SuccessReleases ==
  main = "success" => std = {} /\ \A t \in Transfer : held[t] = {}

(* full-duplex.c:139 "Use CTRL-C to quit.": a stop, from a signal or        *)
(* because the second thread could not be created, ends the process,        *)
(* whatever else the threads and main() are doing; unless a thread that has *)
(* not called dsss_transfer_start() yet clears it.                          *)
StopEndsProcess ==
  stop /\ (\A t \in threads : pc[t] # "created") ~> exited
=============================================================================
