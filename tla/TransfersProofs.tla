--------------------------- MODULE TransfersProofs ---------------------------
(***************************************************************************)
(* Proofs about Transfers, for any set of handles and any parameters.       *)
(***************************************************************************)
EXTENDS Transfers, TLAPS

(* What the creation has asked for when it is at a place. *)
Asked(place) ==
  CASE place \in {"none", "freed"} -> {}
    [] place = "rates" -> {"transfer"}
    [] place \in {"parameters", "dump"} -> {"transfer", "converter"}
    [] place = "radio" -> {"transfer", "converter", "dump"}
    [] place = "stream" -> {"transfer", "converter", "dump", "radio"}
    [] place = "file" -> {"transfer", "converter", "dump", "radio", "stream"}
    [] place \in {"created", "running", "returned"} -> Resource

(* The inductive invariant: at each place a handle holds what it needs of   *)
(* what has been asked for, and a creation that failed has given up its     *)
(* structure.  Only a SoapySDR radio gets to the place where its stream is  *)
(* set up.                                                                  *)
HandleInv(t) ==
  /\ pc[t] # "none" => option[t] \in Options
  /\ pc[t] = "stream" => option[t].radio = "SOAPYSDR"
  /\ pc[t] \in {"none", "freed"} => held[t] = {}
  /\ pc[t] \notin {"none", "freed", "failed"} =>
       held[t] = Needed(option[t]) \cap Asked(pc[t])
  /\ pc[t] = "failed" => "transfer" \notin held[t]
  /\ "converter" \in held[t] => option[t].radio # "SOAPYSDR"

IInv == TypeOK /\ \A t \in Transfer : HandleInv(t)

(* What a set of parameters needs is a set of resources. *)
LEMMA NeededType == ASSUME NEW o \in Options PROVE Needed(o) \subseteq Resource
  BY DEF Needed, Resource

(* What dsss_transfer_free() gives up is what the parameters need, once all *)
(* of it is held.                                                           *)
LEMMA ReleasedIsNeeded ==
  ASSUME NEW t \in Transfer, option[t] \in Options, held[t] = Needed(option[t])
  PROVE  Released(t) = Needed(option[t])
<1> DEFINE o == option[t]
<1>1. /\ o.radio \in {"IO", "FILENAME", "SOAPYSDR"}
      /\ o.source \in {"file", "std", "callback"}
      /\ o.audio \in BOOLEAN /\ o.dump \in BOOLEAN
  BY TransfersAssumption
<1>2. CASE o.radio = "IO"
  BY <1>1, <1>2 DEF Released, Needed
<1>3. CASE o.radio = "FILENAME"
  BY <1>1, <1>3 DEF Released, Needed
<1>4. CASE o.radio = "SOAPYSDR"
  BY <1>1, <1>4 DEF Released, Needed
<1> QED BY <1>1, <1>2, <1>3, <1>4

(* A step of one handle. *)
LEMMA OneHandle ==
  ASSUME IInv, Values', NEW t \in Transfer, HandleInv(t)',
         \A u \in Transfer \ {t} :
           pc'[u] = pc[u] /\ option'[u] = option[u] /\ held'[u] = held[u]
  PROVE  IInv'
<1>1. ASSUME NEW u \in Transfer, u # t PROVE HandleInv(u)'
  <2>1. HandleInv(u)
    BY DEF IInv
  <2>2. pc'[u] = pc[u] /\ option'[u] = option[u] /\ held'[u] = held[u]
    BY <1>1
  <2> QED BY <2>1, <2>2 DEF HandleInv
<1>2. \A u \in Transfer : HandleInv(u)'
  BY <1>1
<1>3. TypeOK'
  BY <1>2 DEF TypeOK, HandleInv
<1> QED BY <1>2, <1>3 DEF IInv

(* Each step of dsss_transfer_create_callback() and its error returns. *)
LEMMA CreateKeepsIInv ==
  ASSUME IInv, NEW t \in Transfer, CreateStep(t)
  PROVE  IInv'
<1> USE DEF Goto, Acquire
<1>1. Values /\ HandleInv(t) /\ (pc[t] # "none" => option[t] \in Options)
  BY DEF IInv, TypeOK, HandleInv
<1> DEFINE o == option[t]
<1>2. pc[t] # "none" =>
        /\ o.radio \in {"IO", "FILENAME", "SOAPYSDR"}
        /\ o.source \in {"file", "std", "callback"}
        /\ o.audio \in BOOLEAN /\ o.dump \in BOOLEAN
  BY <1>1, TransfersAssumption
<1>3. ASSUME NEW p \in Options, Allocate(t, p) PROVE IInv'
  <2>1. Values'
    BY <1>1, <1>3 DEF Allocate, Values, Resource
  <2>2. HandleInv(t)'
    BY <1>1, <1>3 DEF Allocate, Values, HandleInv, Needed, Asked
  <2> QED BY <1>1, <1>3, <2>1, <2>2, OneHandle DEF Allocate, Values
<1>4. CASE SetRates(t)
  <2>1. Values'
    BY <1>1, <1>4 DEF SetRates, Fail, Values, Resource
  <2>2. HandleInv(t)'
    BY <1>1, <1>2, <1>4 DEF SetRates, Fail, Values, HandleInv, Needed, Asked
  <2> QED BY <1>1, <1>4, <2>1, <2>2, OneHandle DEF SetRates, Fail, Values
<1>5. CASE SetParameters(t)
  <2>1. Values'
    BY <1>1, <1>5 DEF SetParameters, Fail, Values, Resource
  <2>2. HandleInv(t)'
    BY <1>1, <1>2, <1>5 DEF SetParameters, Fail, Values, HandleInv, Needed, Asked
  <2> QED BY <1>1, <1>5, <2>1, <2>2, OneHandle DEF SetParameters, Fail, Values
<1>6. CASE OpenDump(t)
  <2>1. Values'
    BY <1>1, <1>6 DEF OpenDump, Fail, Values, Resource
  <2>2. HandleInv(t)'
    BY <1>1, <1>2, <1>6 DEF OpenDump, Fail, Values, HandleInv, Needed, Asked
  <2> QED BY <1>1, <1>6, <2>1, <2>2, OneHandle DEF OpenDump, Fail, Values
<1>7. CASE OpenRadio(t)
  <2>1. Values'
    BY <1>1, <1>7 DEF OpenRadio, Fail, Values, Resource
  <2>2. HandleInv(t)'
    BY <1>1, <1>2, <1>7 DEF OpenRadio, Fail, Values, HandleInv, Needed, Asked
  <2> QED BY <1>1, <1>7, <2>1, <2>2, OneHandle DEF OpenRadio, Fail, Values
<1>8. CASE ConfigureRadio(t)
  BY <1>8 DEF ConfigureRadio, IInv, TypeOK, Values, HandleInv
<1>9. CASE SetupStream(t)
  <2>1. Values'
    BY <1>1, <1>9 DEF SetupStream, Fail, Values, Resource
  <2>2. HandleInv(t)'
    BY <1>1, <1>2, <1>9 DEF SetupStream, Fail, Values, HandleInv, Needed, Asked
  <2> QED BY <1>1, <1>9, <2>1, <2>2, OneHandle DEF SetupStream, Fail, Values
<1>10. CASE OpenFile(t)
  <2>1. Values'
    BY <1>1, <1>10 DEF OpenFile, Fail, Values, Resource
  <2>2. HandleInv(t)'
    BY <1>1, <1>2, <1>10 DEF OpenFile, Fail, Values, HandleInv, Needed, Asked, Resource
  <2> QED BY <1>1, <1>10, <2>1, <2>2, OneHandle DEF OpenFile, Fail, Values
<1> QED BY <1>3, <1>4, <1>5, <1>6, <1>7, <1>8, <1>9, <1>10 DEF CreateStep

(* What happens to a handle that was returned, but for its release. *)
LEMMA UseKeepsIInv ==
  ASSUME IInv, NEW t \in Transfer, Start(t) \/ LeaveLoop(t) \/ Finish(t) \/ Stop(t)
  PROVE  IInv'
<1> USE DEF Goto
<1>1. Values /\ HandleInv(t)
  BY DEF IInv, TypeOK
<1>2. /\ UNCHANGED <<option, held, std>>
      /\ pc' \in {[pc EXCEPT ![t] = "running"], [pc EXCEPT ![t] = "returned"], pc}
      /\ pc'[t] # pc[t] => {pc[t], pc'[t]} \subseteq {"created", "running", "returned"}
  BY <1>1 DEF Start, LeaveLoop, Finish, Stop, Values
<1>3. Values'
  BY <1>1, <1>2 DEF Start, LeaveLoop, Finish, Stop, Values
<1>4. HandleInv(t)'
  BY <1>1, <1>2 DEF HandleInv, Asked
<1> QED BY <1>1, <1>2, <1>3, <1>4, OneHandle DEF Values

(* The release of a handle that is not running. *)
LEMMA ReleaseKeepsIInv ==
  ASSUME IInv, NEW t \in Transfer, pc[t] \in {"created", "returned"}, Release(t)
  PROVE  IInv' /\ held'[t] = {} /\ pc'[t] = "freed"
<1>1. /\ Values /\ option[t] \in Options
      /\ held[t] = Needed(option[t]) \cap Resource
  BY DEF IInv, TypeOK, HandleInv, Asked
<1>2. Released(t) = held[t]
  BY <1>1, NeededType, ReleasedIsNeeded
<1>3. /\ held' = [held EXCEPT ![t] = {}] /\ pc' = [pc EXCEPT ![t] = "freed"]
      /\ std' \subseteq std
      /\ UNCHANGED <<stop, transferStop, option, exited>>
  BY <1>2 DEF Release, Goto
<1>4. Values'
  BY <1>1, <1>3 DEF Values
<1>5. held'[t] = {} /\ pc'[t] = "freed"
  BY <1>1, <1>3 DEF Values
<1>6. HandleInv(t)'
  BY <1>1, <1>3, <1>5 DEF HandleInv, Values
<1> QED BY <1>1, <1>3, <1>4, <1>5, <1>6, OneHandle DEF Values

LEMMA StopAllKeepsIInv == IInv /\ StopAll => IInv'
  BY DEF StopAll, IInv, TypeOK, Values, HandleInv

LEMMA InitIInv == Init => IInv
  BY DEF Init, IInv, TypeOK, Values, HandleInv

LEMMA NextIInv == IInv /\ [Next]_vars => IInv'
<1> SUFFICES ASSUME IInv, [Next]_vars PROVE IInv'
  OBVIOUS
<1>1. ASSUME NEW t \in Transfer, CreateStep(t) PROVE IInv'
  BY <1>1, CreateKeepsIInv
<1>2. ASSUME NEW t \in Transfer, Start(t) \/ LeaveLoop(t) \/ Finish(t) \/ Stop(t)
      PROVE  IInv'
  BY <1>2, UseKeepsIInv
<1>3. ASSUME NEW t \in Transfer, Free(t) PROVE IInv'
  BY <1>3, ReleaseKeepsIInv DEF Free
<1>4. CASE StopAll
  BY <1>4, StopAllKeepsIInv
<1>5. CASE UNCHANGED vars
  BY <1>5 DEF vars, IInv, TypeOK, Values, HandleInv
<1> QED BY <1>1, <1>2, <1>3, <1>4, <1>5 DEF Next

THEOREM AlwaysIInv == Spec => []IInv
  BY InitIInv, NextIInv, PTL DEF Spec

(* The variables of Transfers keep their types, for any number of handles,  *)
(* and the audio converter is never there for a SoapySDR radio.             *)
THEOREM TypeCorrect == Spec => []TypeOK
<1>1. IInv => TypeOK
  BY DEF IInv
<1> QED BY <1>1, AlwaysIInv, PTL

(* A handle that dsss_transfer_create() returns is complete, whichever      *)
(* parameters it was given and whatever happened to other handles.          *)
THEOREM HandlesComplete == Spec => []HandleComplete
<1>1. ASSUME IInv, NEW t \in Transfer, pc[t] \in {"created", "running", "returned"}
      PROVE  held[t] = Needed(option[t])
  BY <1>1, NeededType DEF IInv, HandleInv, Asked
<1>2. IInv => HandleComplete
  BY <1>1 DEF HandleComplete
<1> QED BY <1>2, AlwaysIInv, PTL

(* dsss_transfer_free() gives up all that the handle holds and nothing that *)
(* it does not hold.                                                        *)
THEOREM ReleaseExact == Spec => []FreedExactly
<1>1. ASSUME IInv, NEW t \in Transfer, pc[t] \in {"created", "returned"}
      PROVE  Released(t) \subseteq held[t]
  <2>1. option[t] \in Options /\ held[t] = Needed(option[t])
    BY <1>1, NeededType DEF IInv, HandleInv, Asked
  <2> QED BY <2>1, ReleasedIsNeeded
<1>2. ASSUME IInv, NEW t \in Transfer, pc[t] = "freed" PROVE held[t] = {}
  BY <1>2 DEF IInv, HandleInv
<1>3. IInv => FreedExactly
  BY <1>1, <1>2 DEF FreedExactly
<1> QED BY <1>3, AlwaysIInv, PTL
=============================================================================
