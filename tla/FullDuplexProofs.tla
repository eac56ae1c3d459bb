-------------------------- MODULE FullDuplexProofs --------------------------
(***************************************************************************)
(* Proofs about full-duplex.c: main() on all its paths, the two threads and *)
(* the signals, in any interleaving.                                        *)
(***************************************************************************)
EXTENDS FullDuplex, TransfersProofs

Used == {"created", "running", "returned"}

Creating == {"none", "rates", "parameters", "dump", "radio", "stream", "file",
             "created", "failed"}

EndPlaces == {"success", "failure", "killed"}

(* Where main() and the threads are: what main() has done with the two      *)
(* transfers when it is at a place.                                         *)
Progress ==
  CASE main = "downlink" ->
         pc["downlink"] \in Creating /\ pc["uplink"] = "none" /\ threads = {}
    [] main = "uplink" ->
         pc["downlink"] = "created" /\ pc["uplink"] \in Creating /\ threads = {}
    [] main = "downlink_thread" ->
         pc["downlink"] = "created" /\ pc["uplink"] = "created" /\ threads = {}
    [] main \in {"uplink_thread", "give_up", "give_up_join"} ->
         pc["downlink"] \in Used /\ pc["uplink"] = "created" /\ threads = {"downlink"}
    [] main = "give_up_free" ->
         pc["downlink"] = "returned" /\ pc["uplink"] = "created" /\ threads = {"downlink"}
    [] main = "give_up_end" ->
         pc["downlink"] = "freed" /\ pc["uplink"] = "created" /\ threads = {"downlink"}
    [] main \in {"SIGINT", "SIGTERM", "SIGABRT", "join_uplink"} ->
         pc["downlink"] \in Used /\ pc["uplink"] \in Used
    [] main = "join_downlink" ->
         pc["downlink"] \in Used /\ pc["uplink"] = "returned"
    [] main = "free_uplink" ->
         pc["downlink"] = "returned" /\ pc["uplink"] = "returned"
    [] main = "free_downlink" ->
         pc["downlink"] = "returned" /\ pc["uplink"] = "freed" /\ "stdin" \notin std
    [] main \in {"end", "success"} ->
         pc["downlink"] = "freed" /\ pc["uplink"] = "freed" /\ std = {}
    [] OTHER -> TRUE

(* The inductive invariant; the handles are those of main(), the process    *)
(* has ended when main() has.                                               *)
DuplexInv ==
  /\ IInv
  /\ DuplexTypeOK
  /\ Progress
  /\ exited <=> main \in EndPlaces
  /\ \A t \in Transfer : pc[t] # "none" => option[t] = DuplexOption(t)
-----------------------------------------------------------------------------
USE DuplexAssumption

(* The parameters of the two handles. *)
LEMMA DuplexOptionFacts ==
  ASSUME NEW t \in Transfer
  PROVE  /\ DuplexOption(t) \in Options
         /\ SpreadingUsable(DuplexOption(t))
         /\ StdStream(DuplexOption(t)) = IF t = "uplink" THEN {"stdin"} ELSE {"stdout"}
<1>1. DuplexOption(t) \in Options
  BY DEF DuplexOptions
<1>2. SpreadingUsable(DuplexOption(t))
  BY DEF SpreadingUsable, GeneratorAccepts, SynchronizerAccepts, DuplexOption
<1>3. StdStream(DuplexOption(t)) = IF t = "uplink" THEN {"stdin"} ELSE {"stdout"}
  BY DEF StdStream, DuplexOption
<1> QED BY <1>1, <1>2, <1>3

(* A step of the creation of a transfer by main(). *)
LEMMA CreationStep ==
  ASSUME DuplexInv, NEW t \in Transfer,
         \/ Allocate(t, DuplexOption(t))
         \/ SetRates(t) \/ SetParameters(t) \/ OpenDump(t) \/ OpenRadio(t)
         \/ SetupStream(t) \/ OpenFile(t)
  PROVE  /\ IInv'
         /\ pc'[t] \in Creating
         /\ \A u \in Transfer \ {t} : pc'[u] = pc[u]
         /\ \A u \in Transfer : pc'[u] # "none" => option'[u] = DuplexOption(u)
         /\ UNCHANGED <<std, exited>>
<1>1. CreateStep(t)
  BY DuplexOptionFacts DEF CreateStep
<1>2. IInv'
  BY <1>1, CreateKeepsIInv DEF DuplexInv
<1>3. TypeOK
  BY DEF DuplexInv, IInv
<1>4. pc[t] # "created"
  BY DEF Allocate, SetRates, SetParameters, OpenDump, OpenRadio, SetupStream, OpenFile
<1>5. pc'[t] \in Creating /\ \A u \in Transfer \ {t} : pc'[u] = pc[u]
  BY <1>3 DEF Allocate, SetRates, SetParameters, OpenDump, OpenRadio, SetupStream,
              OpenFile, Goto, Fail, Creating, TypeOK, Values
<1>6. CASE Allocate(t, DuplexOption(t))
  BY <1>2, <1>3, <1>5, <1>6 DEF Allocate, Goto, DuplexInv, TypeOK, Values
<1>7. CASE ~Allocate(t, DuplexOption(t))
  <2>1. UNCHANGED <<option, std, exited>> /\ pc[t] # "none"
    BY <1>7 DEF SetRates, SetParameters, OpenDump, OpenRadio, SetupStream, OpenFile
  <2> QED BY <1>2, <1>5, <2>1 DEF DuplexInv
<1> QED BY <1>6, <1>7, <1>2, <1>5 DEF Allocate

(* main() or a signal ends the process. *)
LEMMA EndStep ==
  ASSUME DuplexInv, ~exited, End("failure") \/ End("killed")
  PROVE  DuplexInv'
<1>1. /\ UNCHANGED <<stop, transferStop, pc, option, held, std, threads>>
      /\ exited' = TRUE /\ main' \in {"failure", "killed"}
  BY DEF End
<1>2. IInv'
  BY <1>1 DEF DuplexInv, IInv, TypeOK, Values, HandleInv
<1>3. DuplexTypeOK' /\ Progress'
  BY <1>1, <1>2 DEF DuplexInv, DuplexTypeOK, Progress, IInv
<1> QED BY <1>1, <1>2, <1>3 DEF DuplexInv, EndPlaces

LEMMA CreateTransferStep ==
  ASSUME DuplexInv, ~exited,
         \/ CreateTransfer("downlink", "uplink")
         \/ CreateTransfer("uplink", "downlink_thread")
  PROVE  DuplexInv'
<1> DEFINE t == main
           next == IF t = "downlink" THEN "uplink" ELSE "downlink_thread"
<1>1. main \in {"downlink", "uplink"} /\ main \in Transfer /\ CreateTransfer(main, next)
  BY DEF CreateTransfer
<1>2. CASE /\ \/ Allocate(t, DuplexOption(t))
              \/ SetRates(t) \/ SetParameters(t) \/ OpenDump(t) \/ OpenRadio(t)
              \/ SetupStream(t) \/ OpenFile(t)
           /\ UNCHANGED <<main, threads>>
  <2>1. /\ IInv' /\ pc'[t] \in Creating
        /\ \A u \in Transfer \ {t} : pc'[u] = pc[u]
        /\ \A u \in Transfer : pc'[u] # "none" => option'[u] = DuplexOption(u)
        /\ UNCHANGED <<std, exited, main, threads>>
    BY <1>1, <1>2, CreationStep
  <2>2. DuplexTypeOK' /\ Progress'
    BY <1>1, <2>1 DEF DuplexInv, DuplexTypeOK, Progress, IInv
  <2> QED BY <2>1, <2>2 DEF DuplexInv
<1>3. CASE ConfigureRadio(t) /\ main' = "failure" /\ UNCHANGED threads
  <2>1. /\ UNCHANGED <<stop, transferStop, pc, option, held, std, threads>>
        /\ exited' = TRUE /\ main' = "failure"
    BY <1>3 DEF ConfigureRadio
  <2>2. End("failure")
    BY <2>1 DEF End
  <2> QED BY <2>2, EndStep
<1>4. CASE pc[t] = "created" /\ main' = next /\ UNCHANGED <<vars, threads>>
  <2>1. UNCHANGED <<stop, transferStop, pc, option, held, std, exited, threads>>
    BY <1>4 DEF vars
  <2>2. IInv'
    BY <2>1 DEF DuplexInv, IInv, TypeOK, Values, HandleInv
  <2>3. DuplexTypeOK' /\ Progress'
    BY <1>1, <1>4, <2>1, <2>2 DEF DuplexInv, DuplexTypeOK, Progress, IInv, Creating
  <2> QED BY <1>1, <1>4, <2>1, <2>2, <2>3 DEF DuplexInv, EndPlaces
<1>5. CASE End("failure")
  BY <1>5, EndStep
<1> QED BY <1>1, <1>2, <1>3, <1>4, <1>5 DEF CreateTransfer

(* A thread starts its transfer or leaves the loop, or the data ends. *)
LEMMA ThreadKeepsInv ==
  ASSUME DuplexInv, ~exited, (\E u \in Transfer : ThreadStep(u)) \/ EndOfData
  PROVE  DuplexInv'
<1>1. PICK t \in Transfer :
        /\ t \in threads
        /\ \/ pc[t] = "created" /\ Start(t)
           \/ LeaveLoop(t) \/ Finish(t)
        /\ UNCHANGED <<main, threads>>
  BY DEF ThreadStep, EndOfData
<1>2. TypeOK /\ IInv /\ main \notin EndPlaces
  BY DEF DuplexInv, IInv
<1>3. IInv'
  BY <1>1, <1>2, UseKeepsIInv
<1>4. /\ UNCHANGED <<option, held, std>>
      /\ \/ pc[t] = "created" /\ pc'[t] = "running"
         \/ pc[t] = "running" /\ pc'[t] = "returned"
      /\ \A u \in Transfer \ {t} : pc'[u] = pc[u]
  BY <1>1, <1>2 DEF Start, LeaveLoop, Finish, Goto, TypeOK, Values
<1>5. UNCHANGED exited
  <2>1. pc[t] = "created" => SpreadingUsable(option[t])
    BY DuplexOptionFacts DEF DuplexInv
  <2>2. CASE pc[t] = "created" /\ Start(t)
    <3>1. ~exited'
      BY <2>1, <2>2 DEF Start
    <3>2. exited = FALSE /\ exited' = FALSE
      BY <1>2, <1>3, <3>1 DEF IInv, TypeOK, Values
    <3> QED BY <3>2
  <2>3. CASE LeaveLoop(t) \/ Finish(t)
    BY <2>3 DEF LeaveLoop, Finish
  <2> QED BY <1>1, <2>2, <2>3
<1>6. DuplexTypeOK'
  <2>1. \A u \in threads' : pc'[u] \in {"created", "running", "returned", "freed"}
    BY <1>1, <1>4 DEF DuplexInv, DuplexTypeOK
  <2> QED BY <1>1, <1>3, <2>1 DEF DuplexInv, DuplexTypeOK, IInv
<1>7. Progress'
  BY <1>1, <1>2, <1>4 DEF DuplexInv, Progress, Used, EndPlaces
<1> QED BY <1>1, <1>3, <1>4, <1>5, <1>6, <1>7 DEF DuplexInv

(* main() frees a transfer: it is at the place where that transfer has      *)
(* returned.                                                                *)
LEMMA FreeTransferStep ==
  ASSUME DuplexInv, ~exited, NEW t \in Transfer, NEW from, NEW next,
         FreeTransfer(from, t, next),
         <<from, t, next>> \in
           {<<"give_up_free", "downlink", "give_up_end">>,
            <<"free_uplink", "uplink", "free_downlink">>,
            <<"free_downlink", "downlink", "end">>}
  PROVE  DuplexInv' /\ pc[t] = "returned"
<1>1. main = from /\ Release(t) /\ main' = next /\ UNCHANGED threads
  BY DEF FreeTransfer
<1>2. TypeOK /\ IInv /\ pc[t] = "returned" /\ option[t] = DuplexOption(t)
  BY <1>1 DEF DuplexInv, IInv, Progress
<1>3. IInv' /\ pc'[t] = "freed"
  BY <1>1, <1>2, ReleaseKeepsIInv
<1>4. /\ std' = std \ (IF t = "uplink" THEN {"stdin"} ELSE {"stdout"})
      /\ \A u \in Transfer \ {t} : pc'[u] = pc[u]
      /\ UNCHANGED <<option, exited>>
  BY <1>1, <1>2, DuplexOptionFacts DEF Release, Goto, TypeOK, Values
<1>5. DuplexTypeOK'
  <2>1. \A u \in threads' : pc'[u] \in {"created", "running", "returned", "freed"}
    BY <1>1, <1>3, <1>4 DEF DuplexInv, DuplexTypeOK
  <2> QED BY <1>1, <1>3, <2>1 DEF DuplexInv, DuplexTypeOK, IInv, AllHandled
<1>6. Progress'
  BY <1>1, <1>2, <1>3, <1>4 DEF DuplexInv, Progress, TypeOK, Values
<1> QED BY <1>1, <1>2, <1>3, <1>4, <1>5, <1>6 DEF DuplexInv, EndPlaces

(* A step of main() that leaves the transfers as they are. *)
LEMMA MainAloneStep ==
  ASSUME DuplexInv, ~exited,
         UNCHANGED <<transferStop, pc, option, held, std, exited>>,
         stop' \in BOOLEAN, threads' \subseteq Transfer,
         main' \in {"uplink_thread", "give_up", "give_up_join", "give_up_free",
                   "SIGINT", "SIGTERM", "SIGABRT"} \cup AllHandled,
         Progress'
  PROVE  DuplexInv'
<1>1. IInv'
  BY DEF DuplexInv, IInv, TypeOK, Values, HandleInv
<1>2. \A t \in threads' : pc'[t] \in {"created", "running", "returned", "freed"}
  BY DEF Progress, Used, AllHandled
<1>3. DuplexTypeOK' /\ main' \notin EndPlaces
  BY <1>1, <1>2 DEF DuplexTypeOK, IInv, AllHandled, EndPlaces
<1> QED BY <1>1, <1>3 DEF DuplexInv

LEMMA MainKeepsInv == DuplexInv /\ ~exited /\ MainStep => DuplexInv'
<1> SUFFICES ASSUME DuplexInv, ~exited, MainStep PROVE DuplexInv'
  OBVIOUS
<1>1. TypeOK /\ Progress /\ threads \subseteq Transfer
  BY DEF DuplexInv, DuplexTypeOK
<1>2. CASE \/ CreateTransfer("downlink", "uplink")
           \/ CreateTransfer("uplink", "downlink_thread")
  BY <1>2, CreateTransferStep
<1>3. CASE StartDownlinkThread
  <2>1. CASE End("failure")
    BY <2>1, EndStep
  <2>2. CASE ~End("failure")
    <3>1. /\ main = "downlink_thread" /\ main' = "uplink_thread"
          /\ threads' = threads \cup {"downlink"}
          /\ UNCHANGED <<stop, transferStop, pc, option, held, std, exited>>
      BY <1>3, <2>2 DEF StartDownlinkThread, vars
    <3>2. Progress' /\ stop' \in BOOLEAN /\ threads' \subseteq Transfer
      BY <1>1, <3>1 DEF Progress, Used, TypeOK, Values
    <3> QED BY <3>1, <3>2, MainAloneStep
  <2> QED BY <2>1, <2>2
<1>4. CASE StartUplinkThread
  <2>1. /\ main = "uplink_thread" /\ main' \in {"SIGINT", "give_up"}
        /\ threads' \subseteq Transfer
        /\ main' = "give_up" => threads' = threads
        /\ UNCHANGED <<stop, transferStop, pc, option, held, std, exited>>
    BY <1>1, <1>4 DEF StartUplinkThread, vars
  <2>2. Progress' /\ stop' \in BOOLEAN
    BY <1>1, <2>1 DEF Progress, Used, TypeOK, Values
  <2> QED BY <2>1, <2>2, MainAloneStep
<1>5. CASE GiveUp
  <2>1. /\ main = "give_up" /\ main' = "give_up_join" /\ stop' = TRUE
        /\ UNCHANGED <<transferStop, pc, option, held, std, exited, threads>>
    BY <1>5 DEF GiveUp, StopAll
  <2>2. Progress'
    BY <1>1, <2>1 DEF Progress
  <2> QED BY <1>1, <2>1, <2>2, MainAloneStep
<1>6. ASSUME NEW signal, NEW next, Handle(signal, next),
             <<signal, next>> \in {<<"SIGINT", "SIGTERM">>, <<"SIGTERM", "SIGABRT">>,
                                  <<"SIGABRT", "join_uplink">>}
      PROVE  DuplexInv'
  <2>1. /\ main \in {"SIGINT", "SIGTERM", "SIGABRT"}
        /\ main' \in {"SIGTERM", "SIGABRT", "join_uplink"}
        /\ UNCHANGED <<stop, transferStop, pc, option, held, std, exited, threads>>
    BY <1>6 DEF Handle, vars
  <2>2. Progress' /\ stop' \in BOOLEAN
    BY <1>1, <2>1 DEF Progress, TypeOK, Values
  <2> QED BY <1>1, <2>1, <2>2, MainAloneStep DEF AllHandled
<1>7. ASSUME NEW from, NEW t \in Transfer, NEW next, Join(from, t, next),
             <<from, t, next>> \in {<<"give_up_join", "downlink", "give_up_free">>,
                                   <<"join_uplink", "uplink", "join_downlink">>,
                                   <<"join_downlink", "downlink", "free_uplink">>}
      PROVE  DuplexInv'
  <2>1. /\ main = from /\ main' = next /\ pc[t] = "returned"
        /\ UNCHANGED <<stop, transferStop, pc, option, held, std, exited, threads>>
    BY <1>7 DEF Join, vars
  <2>2. Progress' /\ stop' \in BOOLEAN
    BY <1>1, <1>7, <2>1 DEF Progress, TypeOK, Values, Used
  <2> QED BY <1>1, <1>7, <2>1, <2>2, MainAloneStep DEF AllHandled
<1>8. ASSUME NEW from, NEW t \in Transfer, NEW next, FreeTransfer(from, t, next),
             <<from, t, next>> \in
               {<<"give_up_free", "downlink", "give_up_end">>,
                <<"free_uplink", "uplink", "free_downlink">>,
                <<"free_downlink", "downlink", "end">>}
      PROVE  DuplexInv'
  BY <1>8, FreeTransferStep
<1>9. CASE End("failure")
  BY <1>9, EndStep
<1>10. CASE main = "end" /\ End("success")
  <2>1. /\ UNCHANGED <<stop, transferStop, pc, option, held, std, threads>>
        /\ exited' = TRUE /\ main = "end" /\ main' = "success"
    BY <1>10 DEF End
  <2>2. IInv'
    BY <2>1 DEF DuplexInv, IInv, TypeOK, Values, HandleInv
  <2>3. DuplexTypeOK' /\ Progress'
    BY <1>1, <2>1, <2>2 DEF DuplexTypeOK, Progress, IInv
  <2> QED BY <2>1, <2>2, <2>3 DEF DuplexInv, EndPlaces
<1> QED
  BY <1>2, <1>3, <1>4, <1>5, <1>6, <1>7, <1>8, <1>9, <1>10 DEF MainStep

LEMMA SignalKeepsInv ==
  ASSUME DuplexInv, ~exited, NEW signal, Signal(signal) PROVE DuplexInv'
<1>1. CASE End("killed")
  BY <1>1, EndStep
<1>2. CASE StopAll /\ UNCHANGED <<main, threads>>
  <2>1. /\ UNCHANGED <<transferStop, pc, option, held, std, exited, main, threads>>
        /\ IInv'
    BY <1>2, StopAllKeepsIInv DEF StopAll, DuplexInv
  <2>2. DuplexTypeOK' /\ Progress'
    BY <2>1 DEF DuplexInv, DuplexTypeOK, Progress, IInv
  <2> QED BY <2>1, <2>2 DEF DuplexInv
<1> QED BY <1>1, <1>2 DEF Signal

LEMMA NextDuplexInv == DuplexInv /\ [DuplexNext]_duplexVars => DuplexInv'
<1> SUFFICES ASSUME DuplexInv, [DuplexNext]_duplexVars PROVE DuplexInv'
  OBVIOUS
<1>1. CASE UNCHANGED duplexVars
  <2>1. UNCHANGED <<stop, transferStop, pc, option, held, std, exited, main, threads>>
    BY <1>1 DEF duplexVars, vars
  <2>2. IInv'
    BY <2>1 DEF DuplexInv, IInv, TypeOK, Values, HandleInv
  <2>3. DuplexTypeOK' /\ Progress'
    BY <2>1, <2>2 DEF DuplexInv, DuplexTypeOK, Progress, IInv
  <2> QED BY <2>1, <2>2, <2>3 DEF DuplexInv
<1> QED
  BY <1>1, MainKeepsInv, ThreadKeepsInv, SignalKeepsInv DEF DuplexNext

LEMMA InitDuplexInv == DuplexInit => DuplexInv
<1> SUFFICES ASSUME DuplexInit PROVE DuplexInv
  OBVIOUS
<1>1. IInv /\ main = "downlink" /\ threads = {}
  BY InitIInv DEF DuplexInit
<1>2. \A t \in Transfer : pc[t] = "none"
  BY DEF DuplexInit, Init
<1>3. ~exited
  BY DEF DuplexInit, Init
<1>4. DuplexTypeOK /\ Progress
  BY <1>1, <1>2 DEF DuplexTypeOK, IInv, Progress, Creating
<1> QED BY <1>1, <1>2, <1>3, <1>4 DEF DuplexInv, EndPlaces

THEOREM AlwaysDuplexInv == DuplexSpec => []DuplexInv
  BY InitDuplexInv, NextDuplexInv, PTL DEF DuplexSpec

(* The variables of the example keep their types, and a thread is never     *)
(* given a transfer that could not be created.                              *)
THEOREM DuplexTypeCorrect == DuplexSpec => []DuplexTypeOK
<1>1. DuplexInv => DuplexTypeOK
  BY DEF DuplexInv
<1> QED BY <1>1, AlwaysDuplexInv, PTL

(* A successful end of full-duplex.c has released both radios and given up  *)
(* the standard streams, on every path that leads to it.                    *)
THEOREM SuccessAlwaysReleases == DuplexSpec => []SuccessReleases
<1>1. ASSUME DuplexInv, main = "success"
      PROVE  std = {} /\ \A t \in Transfer : held[t] = {}
  <2>1. std = {} /\ \A t \in Transfer : pc[t] = "freed"
    BY <1>1 DEF DuplexInv, Progress
  <2> QED BY <1>1, <2>1 DEF DuplexInv, IInv, HandleInv
<1>2. DuplexInv => SuccessReleases
  BY <1>1 DEF SuccessReleases
<1> QED BY <1>2, AlwaysDuplexInv, PTL
-----------------------------------------------------------------------------
(* The end of the process by a return of main() or by a signal. *)
ProcessEnds ==
  /\ exited' = TRUE
  /\ UNCHANGED <<stop, transferStop, pc, option, held, std>>

(* What the steps of main() are for the transfers. *)
LEMMA MainUses ==
  ASSUME DuplexInv, ~exited, MainStep
  PROVE  \/ \E t \in Transfer : CreateStep(t) /\ pc'[t] # "freed"
                                /\ \A u \in Transfer \ {t} : pc'[u] = pc[u]
         \/ \E t \in Transfer : Release(t) /\ pc[t] = "returned"
         \/ StopAll \/ ProcessEnds \/ UNCHANGED vars
<1>1. ASSUME NEW t \in Transfer, NEW next, CreateTransfer(t, next)
      PROVE  \/ CreateStep(t) /\ pc'[t] # "freed"
                 /\ \A u \in Transfer \ {t} : pc'[u] = pc[u]
             \/ ProcessEnds \/ UNCHANGED vars
  <2>1. CASE \/ Allocate(t, DuplexOption(t))
             \/ SetRates(t) \/ SetParameters(t) \/ OpenDump(t) \/ OpenRadio(t)
             \/ SetupStream(t) \/ OpenFile(t)
    BY <2>1, CreationStep, DuplexOptionFacts DEF CreateStep, Creating
  <2>2. CASE ConfigureRadio(t) \/ End("failure")
    BY <2>2 DEF ConfigureRadio, End, ProcessEnds
  <2>3. CASE UNCHANGED vars
    BY <2>3
  <2> QED BY <1>1, <2>1, <2>2, <2>3 DEF CreateTransfer
<1>2. ASSUME NEW from, NEW t \in Transfer, NEW next, FreeTransfer(from, t, next),
             <<from, t, next>> \in
               {<<"give_up_free", "downlink", "give_up_end">>,
                <<"free_uplink", "uplink", "free_downlink">>,
                <<"free_downlink", "downlink", "end">>}
      PROVE  Release(t) /\ pc[t] = "returned"
  BY <1>2, FreeTransferStep DEF FreeTransfer
<1>3. ASSUME NEW status, End(status) PROVE ProcessEnds
  BY <1>3 DEF End, ProcessEnds
<1>4. CASE \/ CreateTransfer("downlink", "uplink")
           \/ CreateTransfer("uplink", "downlink_thread")
  BY <1>1, <1>4
<1>5. CASE StartDownlinkThread \/ StartUplinkThread
  BY <1>3, <1>5 DEF StartDownlinkThread, StartUplinkThread
<1>6. CASE GiveUp
  BY <1>6 DEF GiveUp
<1>7. ASSUME NEW signal, NEW next, Handle(signal, next) PROVE UNCHANGED vars
  BY <1>7 DEF Handle
<1>8. ASSUME NEW from, NEW t, NEW next, Join(from, t, next) PROVE UNCHANGED vars
  BY <1>8 DEF Join
<1> QED BY <1>2, <1>3, <1>4, <1>5, <1>6, <1>7, <1>8 DEF MainStep

(* What the steps of the others are for the transfers. *)
LEMMA OthersUse ==
  ASSUME DuplexInv, ~exited,
         \/ \E t \in Transfer : ThreadStep(t)
         \/ EndOfData
         \/ \E signal \in {"SIGINT", "SIGTERM", "SIGABRT"} : Signal(signal)
  PROVE  \/ \E t \in Transfer : Start(t) \/ LeaveLoop(t) \/ Finish(t)
         \/ StopAll \/ ProcessEnds
  BY DEF ThreadStep, EndOfData, Signal, End, ProcessEnds

(* full-duplex.c calls the library the way Transfers says that a process    *)
(* may: its steps are steps of Transfers, but for the end of the process.   *)
(* In particular it frees no transfer that runs.                            *)
THEOREM UsesLibrary == DuplexSpec => Init /\ [][Next \/ ProcessEnds]_vars
<1>1. DuplexInit => Init
  BY DEF DuplexInit
<1>2. DuplexInv /\ [DuplexNext]_duplexVars => [Next \/ ProcessEnds]_vars
  <2> SUFFICES ASSUME DuplexInv, [DuplexNext]_duplexVars, ~UNCHANGED vars
               PROVE  Next \/ ProcessEnds
    OBVIOUS
  <2>1. ~exited
    BY DEF DuplexNext, duplexVars
  <2>2. CASE MainStep
    BY <2>1, <2>2, MainUses DEF Next, Free
  <2>3. CASE \/ \E t \in Transfer : ThreadStep(t)
             \/ EndOfData
             \/ \E signal \in {"SIGINT", "SIGTERM", "SIGABRT"} : Signal(signal)
    BY <2>1, <2>3, OthersUse DEF Next
  <2> QED BY <2>1, <2>2, <2>3 DEF DuplexNext, duplexVars
<1> QED BY <1>1, <1>2, AlwaysDuplexInv, PTL DEF DuplexSpec

(* A transfer is freed when it has returned, or has no thread.              *)
THEOREM NeverUsedAfterFree == DuplexSpec => FreedAfterUse
<1> DEFINE Allowed == \A t \in Transfer : pc'[t] = "freed" /\ pc[t] # "freed" =>
                        pc[t] = "returned" \/ t \notin threads
<1>1. DuplexInv /\ [DuplexNext]_duplexVars => [Allowed]_duplexVars
  <2> SUFFICES ASSUME DuplexInv, DuplexNext, NEW t \in Transfer,
                      pc'[t] = "freed", pc[t] # "freed"
               PROVE  pc[t] = "returned"
    BY DEF Allowed
  <2>1. TypeOK /\ ~exited
    BY DEF DuplexInv, IInv, DuplexNext, duplexVars, vars
  <2>2. ~UNCHANGED vars /\ ~ProcessEnds /\ ~StopAll
    BY DEF vars, ProcessEnds, StopAll
  <2>3. ASSUME NEW u \in Transfer, Release(u), pc[u] = "returned"
        PROVE  pc[t] = "returned"
    BY <2>1, <2>3 DEF Release, Goto, TypeOK, Values
  <2>4. CASE MainStep
    BY <2>1, <2>2, <2>3, <2>4, MainUses
  <2>5. ASSUME NEW u \in Transfer, Start(u) \/ LeaveLoop(u) \/ Finish(u)
        PROVE  FALSE
    BY <2>1, <2>5 DEF Start, LeaveLoop, Finish, Goto, TypeOK, Values
  <2> QED BY <2>1, <2>2, <2>4, <2>5, OthersUse DEF DuplexNext, duplexVars
<1> QED BY <1>1, AlwaysDuplexInv, PTL DEF DuplexSpec, FreedAfterUse
=============================================================================
