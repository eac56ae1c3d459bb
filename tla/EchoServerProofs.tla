-------------------------- MODULE EchoServerProofs --------------------------
(***************************************************************************)
(* Proofs about echo-server.c, for any number of clients, messages of any   *)
(* length and any sizes of frames and buffer.                               *)
(***************************************************************************)
EXTENDS EchoServer, SequenceTheorems, WellFoundedInduction, TLAPS

(* Induction over the natural numbers, for a set instead of a predicate. *)
LEMMA Induction ==
  ASSUME NEW S \in SUBSET Nat, 0 \in S, \A n \in S : n + 1 \in S
  PROVE  S = Nat
<1> SUFFICES ASSUME Nat \ S # {} PROVE FALSE
  OBVIOUS
<1> DEFINE R == OpToRel(<, Nat)
           T == Nat \ S
<1>1. IsWellFoundedOn(R, Nat)
  BY NatLessThanWellFounded
<1>2. \A m, n \in Nat : m < n => <<m, n>> \in R
  BY DEF OpToRel
<1> HIDE DEF R
<1>3. PICK n \in T : \A m \in T : <<m, n>> \notin R
  BY <1>1, WFMin
<1>4. n # 0 /\ n - 1 \in Nat
  BY <1>3
<1>5. n - 1 \notin T
  <2>1. n - 1 < n /\ n \in Nat
    BY <1>4
  <2>2. <<n - 1, n>> \in R
    BY <1>2, <1>4, <2>1
  <2> QED BY <1>3, <2>2
<1> QED BY <1>4, <1>5
-----------------------------------------------------------------------------
Buffer == [1 .. BufferSize -> Bytes]

(* The bytes that process_request() has moved after i swaps. *)
Moved(n, i) == 1 .. i \cup n - i + 1 .. n

PartlyReversed(s, n, i) ==
  [k \in 1 .. BufferSize |-> IF k \in Moved(n, i) THEN s[n + 1 - k] ELSE s[k]]

LEMMA SwapAdvances ==
  ASSUME NEW s \in Buffer, NEW n \in 0 .. BufferSize, NEW i \in 1 .. n \div 2
  PROVE  Swap(PartlyReversed(s, n, i - 1), i, n + 1 - i) = PartlyReversed(s, n, i)
<1> USE EchoAssumption
<1> DEFINE j == n + 1 - i
           before == PartlyReversed(s, n, i - 1)
<1>1. i \in 1 .. BufferSize /\ j \in 1 .. BufferSize /\ i < j /\ n + 1 - j = i
  OBVIOUS
<1>2. before[i] = s[i] /\ before[j] = s[j]
  BY <1>1 DEF PartlyReversed, Moved
<1>3. \A k \in 1 .. BufferSize : k # i /\ k # j => (k \in Moved(n, i) <=> k \in Moved(n, i - 1))
  BY <1>1 DEF Moved
<1>4. i \in Moved(n, i) /\ j \in Moved(n, i)
  BY <1>1 DEF Moved
<1>5. DOMAIN before = 1 .. BufferSize
  BY DEF PartlyReversed
<1>6. Swap(before, i, j) =
        [k \in 1 .. BufferSize |-> IF k = i THEN s[j] ELSE IF k = j THEN s[i] ELSE before[k]]
  BY <1>1, <1>2, <1>5 DEF Swap
<1>7. ASSUME NEW k \in 1 .. BufferSize
      PROVE  Swap(before, i, j)[k] = PartlyReversed(s, n, i)[k]
  <2>1. CASE k = i
    BY <1>1, <1>4, <1>6, <2>1 DEF PartlyReversed
  <2>2. CASE k = j
    BY <1>1, <1>4, <1>6, <2>2 DEF PartlyReversed
  <2>3. CASE k # i /\ k # j
    BY <1>3, <1>6, <2>3 DEF PartlyReversed
  <2> QED BY <2>1, <2>2, <2>3
<1> QED BY <1>6, <1>7 DEF PartlyReversed

(* process_request() reverses the first n bytes of the buffer. *)
LEMMA RequestReversed ==
  ASSUME NEW s \in Buffer, NEW n \in 0 .. BufferSize
  PROVE  ProcessRequest(s, n) =
           [k \in 1 .. BufferSize |-> IF k <= n THEN s[n + 1 - k] ELSE s[k]]
<1> USE EchoAssumption
<1> DEFINE half == n \div 2
           Swapping(f) == [i \in 0 .. half |->
                             IF i = 0 THEN s ELSE Swap(f[i - 1], i, n + 1 - i)]
           swapped == CHOOSE f : f = Swapping(f)
           steps == [i \in 0 .. half |-> PartlyReversed(s, n, i)]
<1>1. ProcessRequest(s, n) = swapped[half]
  BY DEF ProcessRequest
<1>2. half \in Nat /\ 2 * half <= n /\ n <= 2 * half + 1
  OBVIOUS
<1>3. PartlyReversed(s, n, 0) = s
  BY DEF PartlyReversed, Moved, Buffer
<1>4. steps = Swapping(steps)
  <2>1. ASSUME NEW i \in 0 .. half PROVE steps[i] = Swapping(steps)[i]
    <3>1. CASE i = 0
      BY <1>3, <3>1
    <3>2. CASE i # 0
      <4>1. i \in 1 .. half /\ i - 1 \in 0 .. half
        BY <3>2
      <4>2. Swapping(steps)[i] = Swap(PartlyReversed(s, n, i - 1), i, n + 1 - i)
        BY <4>1
      <4> QED BY <4>1, <4>2, SwapAdvances
    <3> QED BY <3>1, <3>2
  <2> QED BY <2>1
<1>5. swapped = Swapping(swapped)
  BY <1>4
<1> HIDE DEF swapped, half, Swap
<1>6. /\ swapped[0] = s
      /\ \A i \in 1 .. half : swapped[i] = Swap(swapped[i - 1], i, n + 1 - i)
  BY <1>2, <1>5
<1> DEFINE Right == {i \in Nat : i <= half => swapped[i] = PartlyReversed(s, n, i)}
<1>7. Right = Nat
  <2>1. 0 \in Right
    BY <1>3, <1>6
  <2>2. ASSUME NEW i \in Right PROVE i + 1 \in Right
    <3>1. SUFFICES ASSUME i + 1 <= half
                   PROVE  swapped[i + 1] = PartlyReversed(s, n, i + 1)
      OBVIOUS
    <3>2. i + 1 \in 1 .. half /\ (i + 1) - 1 = i /\ i <= half /\ i + 1 # 0
      BY <3>1, <1>2
    <3>3. swapped[i + 1] = Swap(swapped[i], i + 1, n + 1 - (i + 1))
      BY <3>2, <1>6
    <3>4. swapped[i] = PartlyReversed(s, n, i)
      BY <3>2
    <3> QED BY <3>2, <3>3, <3>4, SwapAdvances DEF half
  <2> QED BY <2>1, <2>2, Induction
<1>8. swapped[half] = PartlyReversed(s, n, half)
  BY <1>2, <1>7
<1>9. \A k \in 1 .. BufferSize :
        PartlyReversed(s, n, half)[k] = IF k <= n THEN s[n + 1 - k] ELSE s[k]
  BY <1>2 DEF PartlyReversed, Moved
<1> QED BY <1>1, <1>8, <1>9 DEF PartlyReversed

(* A received message, ended with a NUL and processed: its reverse is at    *)
(* the beginning of the buffer.                                             *)
LEMMA ReverseInBuffer ==
  ASSUME NEW s \in Buffer, NEW n \in 0 .. BufferSize - 1
  PROVE  LET t == ProcessRequest(Terminated(s, n), n)
         IN  t \in Buffer /\ SubSeq(t, 1, n) = Reverse(SubSeq(s, 1, n))
<1> USE EchoAssumption
<1> DEFINE u == Terminated(s, n)
           t == ProcessRequest(u, n)
<1>1. u \in Buffer /\ \A k \in 1 .. n : u[k] = s[k]
  BY DEF Terminated, Buffer, Bytes
<1> HIDE DEF u
<1>2. t = [k \in 1 .. BufferSize |-> IF k <= n THEN u[n + 1 - k] ELSE u[k]]
  BY <1>1, RequestReversed
<1>3. t \in Buffer
  BY <1>1, <1>2 DEF Buffer
<1>4. \A k \in 1 .. n : t[k] = s[n + 1 - k]
  BY <1>1, <1>2
<1> HIDE DEF t
<1>5. /\ SubSeq(t, 1, n) \in Seq(Bytes) /\ Len(SubSeq(t, 1, n)) = n
      /\ \A k \in 1 .. n : SubSeq(t, 1, n)[k] = t[k]
  <2>1. \A k \in 1 .. n : t[k] \in Bytes
    BY <1>3 DEF Buffer
  <2> QED BY <2>1, SubSeqProperties
<1>6. /\ SubSeq(s, 1, n) \in Seq(Bytes) /\ Len(SubSeq(s, 1, n)) = n
      /\ \A k \in 1 .. n : SubSeq(s, 1, n)[k] = s[k]
  <2>1. \A k \in 1 .. n : s[k] \in Bytes
    BY DEF Buffer
  <2> QED BY <2>1, SubSeqProperties
<1>7. Reverse(SubSeq(s, 1, n)) = [k \in 1 .. n |-> s[n + 1 - k]]
  BY <1>6 DEF Reverse
<1>8. SubSeq(t, 1, n) = [k \in 1 .. n |-> t[k]]
  BY <1>5
<1> QED BY <1>3, <1>4, <1>7, <1>8 DEF t, u

LEMMA ReverseTwice ==
  ASSUME NEW S, NEW s \in Seq(S)
  PROVE  /\ Reverse(s) \in Seq(S) /\ Len(Reverse(s)) = Len(s)
         /\ Reverse(Reverse(s)) = s
<1>1. Len(s) \in Nat /\ \A i \in 1 .. Len(s) : s[Len(s) - i + 1] \in S
  BY ElementOfSeq
<1>2. /\ Reverse(s) \in Seq(S) /\ Len(Reverse(s)) = Len(s)
      /\ \A i \in 1 .. Len(s) : Reverse(s)[i] = s[Len(s) - i + 1]
  BY <1>1 DEF Reverse
<1>3. Reverse(Reverse(s)) = [i \in 1 .. Len(s) |-> s[i]]
  <2>1. \A i \in 1 .. Len(s) : Reverse(s)[Len(s) - i + 1] = s[i]
    BY <1>2
  <2> QED BY <1>2, <2>1 DEF Reverse
<1> QED BY <1>1, <1>2, <1>3

(* The first bytes of a buffer. *)
LEMMA BufferPrefix ==
  ASSUME NEW s \in Buffer, NEW n \in 0 .. BufferSize
  PROVE  SubSeq(s, 1, n) \in Seq(Bytes) /\ Len(SubSeq(s, 1, n)) = n
<1>1. \A k \in 1 .. n : s[k] \in Bytes
  BY EchoAssumption DEF Buffer
<1> QED BY <1>1, EchoAssumption, SubSeqProperties

(* What reception_callback() copies is at the beginning of the buffer. *)
LEMMA CopiedPrefix ==
  ASSUME NEW p \in Station, data[p] \in Buffer, NEW payload \in Seq(Bytes),
         Len(payload) <= size[p], size[p] \in 0 .. BufferSize - 1
  PROVE  /\ Kept(p, payload) = Len(payload)
         /\ Copied(p, payload) \in Buffer
         /\ SubSeq(Copied(p, payload), 1, Len(payload)) = payload
<1> USE EchoAssumption
<1> DEFINE c == Copied(p, payload)
<1>1. Kept(p, payload) = Len(payload) /\ Len(payload) \in 0 .. BufferSize
  BY DEF Kept, Least
<1>2. c = [i \in 1 .. BufferSize |-> IF i <= Len(payload) THEN payload[i] ELSE data[p][i]]
  BY <1>1 DEF Copied
<1>3. c \in Buffer
  BY <1>1, <1>2, ElementOfSeq DEF Buffer
<1>4. \A i \in 1 .. Len(payload) : c[i] = payload[i]
  BY <1>1, <1>2
<1> HIDE DEF c
<1>5. SubSeq(c, 1, Len(payload)) = payload
  <2>1. \A k \in 1 .. Len(payload) : c[k] \in Bytes
    BY <1>1, <1>3 DEF Buffer
  <2>2. /\ SubSeq(c, 1, Len(payload)) \in Seq(Bytes)
        /\ Len(SubSeq(c, 1, Len(payload))) = Len(payload)
        /\ \A k \in 1 .. Len(payload) : SubSeq(c, 1, Len(payload))[k] = c[k]
    BY <1>1, <2>1, SubSeqProperties
  <2> QED BY <1>4, <2>2, SeqEqual
<1> QED BY <1>1, <1>3, <1>5 DEF c
-----------------------------------------------------------------------------
(* What a client c can take for an answer: the reverse of a part of a       *)
(* message, or a part of the message of another client.                     *)
Answer(c, s) ==
  \/ \E d \in Client : Reverse(s) \in Parts(Message[d])
  \/ \E d \in Client \ {c} : s \in Parts(Message[d])

Heard(p) == SubSeq(data[p], 1, done[p])
Received(p) == SubSeq(data[p], 1, size[p])

Types ==
  /\ pc \in [Station -> Places]
  /\ stop \in [Station -> BOOLEAN] /\ stopLoop \in BOOLEAN
  /\ data \in [Station -> Buffer]
  /\ size \in [Station -> 0 .. BufferSize - 1]
  /\ done \in [Station -> Nat]
  /\ done[Server] < BufferSize
  /\ \A c \in Client : done[c] <= Len(Message[c]) \/ done[c] < BufferSize
  /\ printed \in [Client -> Seq(Bytes)]
  /\ request \in Seq(Bytes)
  /\ failures \in Nat

(* The server starts a transfer only where it has not yet seen the signal,  *)
(* and every way on from there tests stop_loop.                             *)
StartsInv ==
  /\ starts \in {0, 1}
  /\ ~stopLoop => starts = 0
  /\ starts = 1 => pc[Server] \in {"rx", "rx_done", "tx", "loop", "exited"}

(* The buffer of the server at each place of server(). *)
ServerInv ==
  /\ pc[Server] \in {"rx_start", "tx_start"} => done[Server] = 0
  /\ pc[Server] \in {"rx_create", "rx_start", "rx"} => size[Server] = BufferSize - 1
  /\ pc[Server] = "rx" /\ stop[Server] => stopLoop \/ done[Server] > 0
  /\ pc[Server] = "rx" /\ done[Server] > 0 => Heard(Server) = request
  /\ pc[Server] = "rx_done" /\ failures = 0 /\ ~stopLoop => Received(Server) = request
  /\ pc[Server] \in {"sleep", "tx_create", "tx_start", "tx"} /\ failures = 0 =>
       Received(Server) = Reverse(request)
  /\ pc[Server] = "tx" => done[Server] <= size[Server]
  /\ pc[Server] = "tx" /\ failures = 0 => done[Server] \in {0, size[Server]}
  /\ request = <<>> \/ \E d \in Client : request \in Parts(Message[d])

(* The frames of a message begin at the multiples of PayloadSize. *)
AtPart(c) ==
  \/ done[c] = Len(Message[c])
  \/ \E i \in Nat : done[c] = i * PayloadSize /\ done[c] < Len(Message[c])

(* The message and the buffer of a client at each place of client(). *)
ClientInv(c) ==
  /\ pc[c] \notin {"loop", "sleep"}
  /\ pc[c] \in {"rx_start", "tx_start"} => done[c] = 0
  /\ pc[c] = "tx" => AtPart(c)
  /\ pc[c] = "rx" => done[c] < BufferSize
  /\ pc[c] \notin {"rx_done", "exited"} => size[c] = BufferSize - 1
  /\ pc[c] = "rx" /\ done[c] > 0 /\ failures = 0 => Answer(c, Heard(c))
  /\ pc[c] = "rx_done" /\ size[c] > 0 /\ failures = 0 => Answer(c, Received(c))
  /\ printed[c] # <<>> /\ failures = 0 => Answer(c, printed[c])

(* The inductive invariant of the example. *)
EchoInv ==
  /\ Types
  /\ StartsInv
  /\ ServerInv
  /\ \A c \in Client : ClientInv(c)
LEMMA StationFacts ==
  Server \in Station /\ Client \subseteq Station /\ Server \notin Client
BY EchoAssumption DEF Station

LEMMA MessageBytes ==
  ASSUME NEW c \in Client
  PROVE  Message[c] \in Seq(Bytes) /\ Len(Message[c]) \in Nat
<1>1. Message[c] \in Seq(Nat)
  BY EchoAssumption
<1>2. \A i \in 1 .. Len(Message[c]) : Message[c][i] \in Range(Message[c])
  BY <1>1 DEF Range
<1>3. \A i \in 1 .. Len(Message[c]) : Message[c][i] \in Bytes
  BY <1>2 DEF Bytes
<1> QED BY <1>1, <1>3

(* A frame carries the next bytes of the message, at least one of them and  *)
(* at most PayloadSize.                                                     *)
LEMMA PayloadFacts ==
  ASSUME NEW p \in Station, Sending(p) \in Seq(Bytes),
         done[p] \in Nat, done[p] < Len(Sending(p))
  PROVE  /\ Payload(p) \in Seq(Bytes)
         /\ Len(Payload(p)) \in 1 .. PayloadSize
         /\ Advance(p) = Least(done[p] + PayloadSize, Len(Sending(p)))
<1> USE EchoAssumption
<1> DEFINE m == done[p] + 1
           n == Least(done[p] + PayloadSize, Len(Sending(p)))
<1>1. /\ m \in Nat /\ n \in Nat /\ m <= n + 1
      /\ n - m + 1 \in 1 .. PayloadSize /\ done[p] + (n - m + 1) = n
      /\ m >= 1 /\ n <= Len(Sending(p))
  BY DEF Least
<1>2. Payload(p) = SubSeq(Sending(p), m, n)
  BY DEF Payload
<1> HIDE DEF m, n
<1>3. \A i \in m .. n : Sending(p)[i] \in Bytes
  BY <1>1, ElementOfSeq
<1>4. /\ SubSeq(Sending(p), m, n) \in Seq(Bytes)
      /\ Len(SubSeq(Sending(p), m, n)) = n - m + 1
  <2>1. Len(SubSeq(Sending(p), m, n)) = IF m <= n THEN n - m + 1 ELSE 0
    BY <1>1, <1>3, SubSeqProperties
  <2> QED BY <1>1, <1>3, <2>1, SubSeqProperties
<1> QED BY <1>1, <1>2, <1>4 DEF Advance, n

LEMMA Division ==
  ASSUME NEW x \in Nat, NEW d \in Nat \ {0}
  PROVE  x \div d \in Nat /\ x < (x \div d) * d + d
  OBVIOUS

(* What a client sends is a part of its message, and the next one begins    *)
(* where the next part does.                                                *)
LEMMA PayloadIsPart ==
  ASSUME NEW c \in Client, done[c] \in Nat, AtPart(c), done[c] < Len(Message[c])
  PROVE  /\ Payload(c) \in Parts(Message[c])
         /\ \/ Advance(c) = Len(Message[c])
            \/ \E i \in Nat : Advance(c) = i * PayloadSize /\ Advance(c) < Len(Message[c])
<1> USE EchoAssumption
<1> DEFINE len == Len(Message[c])
           last == len \div PayloadSize
<1>1. Sending(c) = Message[c] /\ len \in Nat
  BY StationFacts, MessageBytes DEF Sending
<1>2. PICK i \in Nat : done[c] = i * PayloadSize
  BY <1>1 DEF AtPart
<1>3. (i + 1) * PayloadSize = i * PayloadSize + PayloadSize
  OBVIOUS
<1>4. i \in 0 .. last
  <2>1. last \in Nat /\ len < (last + 1) * PayloadSize
    <3>1. last \in Nat /\ len < last * PayloadSize + PayloadSize
      BY <1>1, Division
    <3> HIDE DEF last
    <3> QED BY <3>1
  <2> HIDE DEF last, len
  <2>2. i * PayloadSize < (last + 1) * PayloadSize
    BY <1>1, <1>2, <2>1 DEF len
  <2>3. ~(last + 1 <= i)
    <3> SUFFICES ASSUME last + 1 <= i PROVE FALSE
      OBVIOUS
    <3> DEFINE d == i - (last + 1)
    <3>1. d \in Nat /\ i = last + 1 + d
      BY <2>1
    <3>2. (last + 1 + d) * PayloadSize = (last + 1) * PayloadSize + d * PayloadSize
      BY <2>1, <3>1
    <3>3. d * PayloadSize >= 0
      BY <3>1
    <3> HIDE DEF d
    <3> QED BY <2>1, <2>2, <3>1, <3>2, <3>3
  <2> QED BY <2>1, <2>3
<1>5. Payload(c) = SubSeq(Message[c], i * PayloadSize + 1, Least((i + 1) * PayloadSize, len))
  BY <1>1, <1>2, <1>3 DEF Payload
<1>6. Payload(c) \in Parts(Message[c])
  BY <1>4, <1>5 DEF Parts
<1>7. Advance(c) = Least((i + 1) * PayloadSize, len)
  BY <1>1, <1>2, <1>3, PayloadFacts, StationFacts, MessageBytes
<1>8. Advance(c) = len \/ (Advance(c) = (i + 1) * PayloadSize /\ Advance(c) < len)
  <2> DEFINE next == (i + 1) * PayloadSize
  <2>1. next \in Nat
    BY <1>2
  <2> HIDE DEF next, len
  <2> QED BY <1>1, <1>7, <2>1 DEF Least, next, len
<1>9. i + 1 \in Nat
  OBVIOUS
<1> QED BY <1>6, <1>8, <1>9

(* A part of a message fits in a frame. *)
LEMMA PartLength ==
  ASSUME NEW c \in Client, NEW s \in Parts(Message[c])
  PROVE  Len(s) <= PayloadSize
<1> USE EchoAssumption
<1> DEFINE len == Len(Message[c])
<1>1. Message[c] \in Seq(Bytes) /\ len \in Nat
  BY MessageBytes
<1>2. PICK i \in 0 .. len \div PayloadSize :
        s = SubSeq(Message[c], i * PayloadSize + 1, Least((i + 1) * PayloadSize, len))
  BY DEF Parts
<1> DEFINE m == i * PayloadSize + 1
           n == Least((i + 1) * PayloadSize, len)
<1>3. i \in Nat /\ (i + 1) * PayloadSize = i * PayloadSize + PayloadSize /\ i * PayloadSize \in Nat
  BY <1>1
<1>4. m \in Nat /\ m >= 1 /\ n \in Nat /\ n <= len /\ n - m + 1 <= PayloadSize
  <2> DEFINE x == i * PayloadSize
             y == (i + 1) * PayloadSize
  <2>1. x \in Nat /\ y = x + PayloadSize /\ m = x + 1 /\ n = Least(y, len)
    BY <1>3
  <2> HIDE DEF x, y, m, n, len
  <2> QED BY <1>1, <2>1 DEF Least, len
<1> HIDE DEF m, n
<1>5. \A k \in m .. n : Message[c][k] \in Bytes
  BY <1>1, <1>4, ElementOfSeq
<1>6. Len(SubSeq(Message[c], m, n)) = IF m <= n THEN n - m + 1 ELSE 0
  BY <1>1, <1>4, <1>5, SubSeqProperties
<1> QED BY <1>2, <1>4, <1>6 DEF m, n
-----------------------------------------------------------------------------
(* A step of another station leaves the server and a client as they are.    *)
LEMMA ServerUntouched ==
  ASSUME StartsInv, ServerInv,
         pc'[Server] = pc[Server], stop'[Server] = stop[Server], stopLoop' = stopLoop,
         data'[Server] = data[Server], size'[Server] = size[Server],
         done'[Server] = done[Server], request' = request, starts' = starts,
         failures' # 0 \/ failures' = failures
  PROVE  StartsInv' /\ ServerInv'
<1>1. Heard(Server)' = Heard(Server) /\ Received(Server)' = Received(Server)
  BY DEF Heard, Received
<1> QED BY <1>1 DEF StartsInv, ServerInv

LEMMA ClientUntouched ==
  ASSUME NEW c \in Client, ClientInv(c),
         pc'[c] = pc[c], data'[c] = data[c], size'[c] = size[c], done'[c] = done[c],
         printed'[c] = printed[c], failures' # 0 \/ failures' = failures
  PROVE  ClientInv(c)'
<1>1. Heard(c)' = Heard(c) /\ Received(c)' = Received(c) /\ AtPart(c)' = AtPart(c)
  BY DEF Heard, Received, AtPart
<1>2. \A s : Answer(c, s)' <=> Answer(c, s)
  BY DEF Answer, Parts
<1> QED BY <1>1, <1>2 DEF ClientInv

LEMMA PrintedUntouched ==
  ASSUME NEW c \in Client, printed'[c] = printed[c]
  PROVE  Answer(c, printed[c])' <=> Answer(c, printed[c])
BY DEF Answer, Parts

LEMMA InitEchoInv == Init => EchoInv
<1> SUFFICES ASSUME Init PROVE EchoInv
  OBVIOUS
<1> USE EchoAssumption, StationFacts
<1>1. Types
  <2>1. [i \in 1 .. BufferSize |-> Junk] \in Buffer
    <3>1. Junk \in Bytes
      BY DEF Bytes
    <3> QED BY <3>1 DEF Buffer
  <2>2. \A c \in Client : Len(Message[c]) \in Nat
    BY MessageBytes
  <2>3. printed \in [Client -> Seq(Bytes)] /\ request \in Seq(Bytes) /\ failures \in Nat
    BY DEF Init
  <2>4. pc \in [Station -> Places] /\ stop \in [Station -> BOOLEAN] /\ stopLoop \in BOOLEAN
    BY DEF Init, Places
  <2>5. data \in [Station -> Buffer] /\ size \in [Station -> 0 .. BufferSize - 1]
    BY <2>1 DEF Init
  <2>6. done \in [Station -> Nat] /\ \A q \in Station : done[q] = 0
    BY DEF Init
  <2> QED BY <2>2, <2>3, <2>4, <2>5, <2>6 DEF Types
<1>2. StartsInv /\ ServerInv
  BY DEF Init, StartsInv, ServerInv
<1>3. ASSUME NEW c \in Client PROVE ClientInv(c)
  BY DEF Init, ClientInv
<1> QED BY <1>1, <1>2, <1>3 DEF EchoInv

(* A step from one place to the next. *)
LEMMA GotoFacts ==
  ASSUME Types, NEW p \in Station, NEW place \in Places, Goto(p, place)
  PROVE  /\ pc' \in [Station -> Places]
         /\ pc'[p] = place /\ \A q \in Station \ {p} : pc'[q] = pc[q]
BY DEF Goto, Types

LEMMA CreateTransferFacts ==
  ASSUME Types, NEW p \in Station, NEW created \in Places, NEW failed \in Places,
         CreateTransfer(p, created, failed)
  PROVE  /\ Types'
         /\ \/ pc'[p] = created /\ failures' = failures
            \/ pc'[p] = failed /\ failures' # 0
         /\ \A q \in Station \ {p} : pc'[q] = pc[q] /\ done'[q] = done[q]
         /\ done'[p] = 0
         /\ UNCHANGED <<stop, stopLoop, data, size, printed, request, starts>>
<1> USE EchoAssumption, StationFacts
<1>1. /\ done' \in [Station -> Nat] /\ done'[p] = 0
      /\ \A q \in Station \ {p} : done'[q] = done[q]
      /\ UNCHANGED <<stop, stopLoop, data, size, printed, request, starts>>
  BY DEF CreateTransfer, Types
<1>2. /\ pc' \in [Station -> Places] /\ failures' \in Nat
      /\ \A q \in Station \ {p} : pc'[q] = pc[q]
      /\ \/ pc'[p] = created /\ failures' = failures
         \/ pc'[p] = failed /\ failures' # 0
  <2>1. \/ Goto(p, created) /\ failures' = failures
        \/ Goto(p, failed) /\ failures' = failures + 1
    BY DEF CreateTransfer
  <2>2. failures \in Nat
    BY DEF Types
  <2> QED BY <2>1, <2>2, GotoFacts
<1>3. BufferSize > 0 /\ \A q \in Station : done'[q] = 0 \/ done'[q] = done[q]
  BY <1>1
<1>4. done'[Server] < BufferSize
  BY <1>3 DEF Types
<1>5. ASSUME NEW c \in Client PROVE done'[c] <= Len(Message[c]) \/ done'[c] < BufferSize
  BY <1>3 DEF Types
<1> QED BY <1>1, <1>2, <1>4, <1>5 DEF Types

LEMMA StartTransferFacts ==
  ASSUME Types, NEW p \in Station, NEW place \in Places, Goto(p, place), StartTransfer(p)
  PROVE  /\ Types'
         /\ pc'[p] = place /\ stop'[p] = FALSE
         /\ \A q \in Station \ {p} : pc'[q] = pc[q] /\ stop'[q] = stop[q]
         /\ starts' = IF p = Server /\ stopLoop THEN starts + 1 ELSE starts
         /\ UNCHANGED <<stopLoop, data, size, done, printed, request, failures>>
<1>1. /\ stop' \in [Station -> BOOLEAN] /\ stop'[p] = FALSE
      /\ \A q \in Station \ {p} : stop'[q] = stop[q]
      /\ starts' = IF p = Server /\ stopLoop THEN starts + 1 ELSE starts
      /\ UNCHANGED <<stopLoop, data, size, done, printed, request, failures>>
  BY DEF StartTransfer, Types
<1> QED BY <1>1, GotoFacts DEF Types

LEMMA CreateReceiverKeepsInv ==
  ASSUME EchoInv, NEW p \in Station, CreateReceiver(p)
  PROVE  EchoInv'
<1> USE StationFacts DEF EchoInv
<1>1. /\ Types'
      /\ \/ pc'[p] = "rx_start" /\ failures' = failures
         \/ pc'[p] = "rx_done" /\ failures' # 0
      /\ \A q \in Station \ {p} : pc'[q] = pc[q] /\ done'[q] = done[q]
      /\ pc[p] = "rx_create" /\ done'[p] = 0
      /\ UNCHANGED <<stop, stopLoop, data, size, printed, request, starts>>
  BY CreateTransferFacts DEF CreateReceiver, Places
<1>2. CASE p = Server
  <2>1. StartsInv' /\ ServerInv'
    BY <1>1, <1>2 DEF StartsInv, ServerInv
  <2>2. \A c \in Client : ClientInv(c)'
    BY <1>1, <1>2, ClientUntouched
  <2> QED BY <1>1, <2>1, <2>2
<1>3. CASE p \in Client
  <2>1. StartsInv' /\ ServerInv'
    BY <1>1, <1>3, ServerUntouched
  <2>2. ASSUME NEW c \in Client PROVE ClientInv(c)'
    <3>1. CASE c = p
      BY <1>1, <1>3, <3>1, PrintedUntouched DEF ClientInv
    <3>2. CASE c # p
      BY <1>1, <1>3, <3>2, ClientUntouched
    <3> QED BY <3>1, <3>2
  <2> QED BY <1>1, <2>1, <2>2
<1> QED BY <1>2, <1>3 DEF Station

LEMMA StartReceiverKeepsInv ==
  ASSUME EchoInv, NEW p \in Station, StartReceiver(p)
  PROVE  EchoInv'
<1> USE EchoAssumption, StationFacts DEF EchoInv
<1>1. /\ Types'
      /\ pc[p] = "rx_start" /\ pc'[p] = "rx" /\ stop'[p] = FALSE
      /\ \A q \in Station \ {p} : pc'[q] = pc[q] /\ stop'[q] = stop[q]
      /\ starts' = IF p = Server /\ stopLoop THEN starts + 1 ELSE starts
      /\ UNCHANGED <<stopLoop, data, size, done, printed, request, failures>>
  BY StartTransferFacts DEF StartReceiver, Places
<1>2. CASE p = Server
  <2>1. StartsInv' /\ ServerInv'
    BY <1>1, <1>2 DEF StartsInv, ServerInv
  <2>2. \A c \in Client : ClientInv(c)'
    BY <1>1, <1>2, ClientUntouched
  <2> QED BY <1>1, <2>1, <2>2
<1>3. CASE p \in Client
  <2>1. StartsInv' /\ ServerInv'
    BY <1>1, <1>3, ServerUntouched
  <2>2. ASSUME NEW c \in Client PROVE ClientInv(c)'
    <3>1. CASE c = p
      BY <1>1, <1>3, <3>1, PrintedUntouched DEF ClientInv
    <3>2. CASE c # p
      BY <1>1, <1>3, <3>2, ClientUntouched
    <3> QED BY <3>1, <3>2
  <2> QED BY <1>1, <2>1, <2>2
<1> QED BY <1>2, <1>3 DEF Station

LEMMA LeaveReceiverKeepsInv ==
  ASSUME EchoInv, NEW p \in Station, LeaveReceiver(p)
  PROVE  EchoInv'
<1> USE EchoAssumption, StationFacts DEF EchoInv
<1>1. /\ Types'
      /\ pc[p] = "rx" /\ stop[p] /\ pc'[p] = "rx_done" /\ size'[p] = done[p]
      /\ \A q \in Station \ {p} : pc'[q] = pc[q] /\ size'[q] = size[q]
      /\ UNCHANGED <<stop, stopLoop, data, done, printed, request, failures, starts>>
  <2>1. done[p] \in 0 .. BufferSize - 1
    BY DEF LeaveReceiver, Types, ClientInv, Station
  <2>2. /\ size' \in [Station -> 0 .. BufferSize - 1] /\ size'[p] = done[p]
        /\ \A q \in Station \ {p} : size'[q] = size[q]
    BY <2>1 DEF LeaveReceiver, Types
  <2> QED BY <2>2, GotoFacts DEF LeaveReceiver, Types, Places, history
<1>2. CASE p = Server
  <2>1. Received(Server)' = Heard(Server)
    BY <1>1, <1>2 DEF Received, Heard
  <2>2. StartsInv' /\ ServerInv'
    BY <1>1, <1>2, <2>1 DEF StartsInv, ServerInv
  <2>3. \A c \in Client : ClientInv(c)'
    BY <1>1, <1>2, ClientUntouched
  <2> QED BY <1>1, <2>2, <2>3
<1>3. CASE p \in Client
  <2>1. StartsInv' /\ ServerInv'
    BY <1>1, <1>3, ServerUntouched
  <2>2. ASSUME NEW c \in Client PROVE ClientInv(c)'
    <3>1. CASE c = p
      <4>1. Answer(c, Received(c))' <=> Answer(c, Heard(c))
        BY <1>1, <3>1 DEF Answer, Parts, Received, Heard
      <4> QED BY <1>1, <3>1, <4>1, PrintedUntouched DEF ClientInv
    <3>2. CASE c # p
      BY <1>1, <3>2, ClientUntouched
    <3> QED BY <3>1, <3>2
  <2> QED BY <1>1, <2>1, <2>2
<1> QED BY <1>2, <1>3 DEF Station
LEMMA CreateSenderKeepsInv ==
  ASSUME EchoInv, NEW p \in Station, CreateSender(p)
  PROVE  EchoInv'
<1> USE StationFacts DEF EchoInv
<1>1. /\ Types'
      /\ \/ pc'[p] = "tx_start" /\ failures' = failures
         \/ pc'[p] = (IF p = Server THEN "loop" ELSE "rx_create") /\ failures' # 0
      /\ \A q \in Station \ {p} : pc'[q] = pc[q] /\ done'[q] = done[q]
      /\ pc[p] = "tx_create" /\ done'[p] = 0
      /\ UNCHANGED <<stop, stopLoop, data, size, printed, request, starts>>
  BY CreateTransferFacts DEF CreateSender, Places
<1>2. CASE p = Server
  <2>1. StartsInv' /\ ServerInv'
    BY <1>1, <1>2 DEF StartsInv, ServerInv, Received
  <2>2. \A c \in Client : ClientInv(c)'
    BY <1>1, <1>2, ClientUntouched
  <2> QED BY <1>1, <2>1, <2>2
<1>3. CASE p \in Client
  <2>1. StartsInv' /\ ServerInv'
    BY <1>1, <1>3, ServerUntouched
  <2>2. ASSUME NEW c \in Client PROVE ClientInv(c)'
    <3>1. CASE c = p
      BY <1>1, <1>3, <3>1, PrintedUntouched DEF ClientInv
    <3>2. CASE c # p
      BY <1>1, <1>3, <3>2, ClientUntouched
    <3> QED BY <3>1, <3>2
  <2> QED BY <1>1, <2>1, <2>2
<1> QED BY <1>2, <1>3 DEF Station

LEMMA StartSenderKeepsInv ==
  ASSUME EchoInv, NEW p \in Station, StartSender(p)
  PROVE  EchoInv'
<1> USE EchoAssumption, StationFacts DEF EchoInv
<1>1. /\ Types'
      /\ pc[p] = "tx_start" /\ pc'[p] = "tx" /\ stop'[p] = FALSE
      /\ \A q \in Station \ {p} : pc'[q] = pc[q] /\ stop'[q] = stop[q]
      /\ starts' = IF p = Server /\ stopLoop THEN starts + 1 ELSE starts
      /\ UNCHANGED <<stopLoop, data, size, done, printed, request, failures>>
  BY StartTransferFacts DEF StartSender, Places
<1>2. CASE p = Server
  <2>1. Received(Server)' = Received(Server) /\ size[Server] >= 0
    BY <1>1 DEF Received, Types
  <2>2. StartsInv' /\ ServerInv'
    BY <1>1, <1>2, <2>1 DEF StartsInv, ServerInv
  <2>3. \A c \in Client : ClientInv(c)'
    BY <1>1, <1>2, ClientUntouched
  <2> QED BY <1>1, <2>2, <2>3
<1>3. CASE p \in Client
  <2>1. AtPart(p)'
    <3>1. done'[p] = 0
      BY <1>1, <1>3 DEF ClientInv
    <3>2. 0 = Len(Message[p]) \/ 0 < Len(Message[p])
      BY <1>3, MessageBytes
    <3>3. 0 = 0 * PayloadSize /\ 0 \in Nat
      OBVIOUS
    <3> QED BY <3>1, <3>2, <3>3 DEF AtPart
  <2>2. StartsInv' /\ ServerInv'
    BY <1>1, <1>3, ServerUntouched
  <2>3. ASSUME NEW c \in Client PROVE ClientInv(c)'
    <3>1. CASE c = p
      BY <1>1, <1>3, <2>1, <3>1, PrintedUntouched DEF ClientInv
    <3>2. CASE c # p
      BY <1>1, <3>2, ClientUntouched
    <3> QED BY <3>1, <3>2
  <2> QED BY <1>1, <2>2, <2>3
<1> QED BY <1>2, <1>3 DEF Station

LEMMA LeaveSenderKeepsInv ==
  ASSUME EchoInv, NEW p \in Station, LeaveSender(p)
  PROVE  EchoInv'
<1> USE StationFacts DEF EchoInv
<1>1. /\ Types'
      /\ pc[p] = "tx" /\ pc'[p] = (IF p = Server THEN "loop" ELSE "rx_create")
      /\ \A q \in Station \ {p} : pc'[q] = pc[q]
      /\ UNCHANGED <<stop, stopLoop, data, size, done, printed, request, failures, starts>>
  BY GotoFacts DEF LeaveSender, Types, Places, history
<1>2. CASE p = Server
  <2>1. StartsInv' /\ ServerInv'
    BY <1>1, <1>2 DEF StartsInv, ServerInv
  <2>2. \A c \in Client : ClientInv(c)'
    BY <1>1, <1>2, ClientUntouched
  <2> QED BY <1>1, <2>1, <2>2
<1>3. CASE p \in Client
  <2>1. StartsInv' /\ ServerInv'
    BY <1>1, <1>3, ServerUntouched
  <2>2. ASSUME NEW c \in Client PROVE ClientInv(c)'
    <3>1. CASE c = p
      BY <1>1, <1>3, <3>1, PrintedUntouched DEF ClientInv
    <3>2. CASE c # p
      BY <1>1, <1>3, <3>2, ClientUntouched
    <3> QED BY <3>1, <3>2
  <2> QED BY <1>1, <2>1, <2>2
<1> QED BY <1>2, <1>3 DEF Station

LEMMA ServerLoopKeepsInv ==
  ASSUME EchoInv, ServerLoop
  PROVE  EchoInv'
<1> USE EchoAssumption, StationFacts DEF EchoInv
<1>1. /\ Types'
      /\ pc[Server] = "loop"
      /\ \/ stopLoop /\ pc'[Server] = "exited" /\ size'[Server] = size[Server]
         \/ ~stopLoop /\ pc'[Server] = "rx_create" /\ size'[Server] = BufferSize - 1
      /\ \A q \in Station \ {Server} : pc'[q] = pc[q] /\ size'[q] = size[q]
      /\ UNCHANGED <<stop, stopLoop, data, done, printed, request, failures, starts>>
  <2>1. /\ UNCHANGED <<stop, stopLoop, data, done, printed, request, failures, starts>>
        /\ pc[Server] = "loop"
    BY DEF ServerLoop, history
  <2>2. CASE stopLoop /\ Goto(Server, "exited") /\ UNCHANGED size
    BY <2>1, <2>2, GotoFacts DEF Types, Places
  <2>3. CASE ~stopLoop /\ Goto(Server, "rx_create") /\ size' = [size EXCEPT ![Server] = BufferSize - 1]
    <3>1. /\ size' \in [Station -> 0 .. BufferSize - 1] /\ size'[Server] = BufferSize - 1
          /\ \A q \in Station \ {Server} : size'[q] = size[q]
      BY <2>3 DEF Types
    <3> QED BY <2>1, <2>3, <3>1, GotoFacts DEF Types, Places
  <2> QED BY <2>2, <2>3 DEF ServerLoop
<1>2. StartsInv' /\ ServerInv'
  BY <1>1 DEF StartsInv, ServerInv
<1>3. \A c \in Client : ClientInv(c)'
  BY <1>1, ClientUntouched
<1> QED BY <1>1, <1>2, <1>3

LEMMA ServerReceivedKeepsInv ==
  ASSUME EchoInv, ServerReceived
  PROVE  EchoInv'
<1> USE StationFacts DEF EchoInv
<1> DEFINE reversed == ProcessRequest(Terminated(data[Server], size[Server]), size[Server])
<1>1. /\ reversed \in Buffer
      /\ SubSeq(reversed, 1, size[Server]) = Reverse(Received(Server))
  BY ReverseInBuffer DEF Types, Received
<1>2. /\ UNCHANGED <<stop, stopLoop, size, done, printed, request, failures, starts>>
      /\ pc[Server] = "rx_done"
  BY DEF ServerReceived, history
<1>3. /\ \/ stopLoop /\ Goto(Server, "exited") /\ data' = data
         \/ ~stopLoop /\ Goto(Server, "sleep") /\ data' = [data EXCEPT ![Server] = reversed]
  BY DEF ServerReceived
<1> HIDE DEF reversed
<1>4. /\ Types'
      /\ \/ stopLoop /\ pc'[Server] = "exited"
         \/ ~stopLoop /\ pc'[Server] = "sleep" /\ data'[Server] = reversed
      /\ \A q \in Station \ {Server} : pc'[q] = pc[q] /\ data'[q] = data[q]
  <2>1. CASE stopLoop /\ Goto(Server, "exited") /\ data' = data
    BY <1>2, <2>1, GotoFacts DEF Types, Places
  <2>2. CASE ~stopLoop /\ Goto(Server, "sleep") /\ data' = [data EXCEPT ![Server] = reversed]
    <3>1. /\ data' \in [Station -> Buffer] /\ data'[Server] = reversed
          /\ \A q \in Station \ {Server} : data'[q] = data[q]
      BY <1>1, <2>2 DEF Types
    <3> QED BY <1>2, <2>2, <3>1, GotoFacts DEF Types, Places
  <2> QED BY <1>3, <2>1, <2>2
<1>5. pc'[Server] = "sleep" => Received(Server)' = Reverse(Received(Server))
  BY <1>1, <1>2, <1>4 DEF Received
<1>6. StartsInv' /\ ServerInv'
  BY <1>2, <1>4, <1>5 DEF StartsInv, ServerInv
<1>7. \A c \in Client : ClientInv(c)'
  BY <1>2, <1>4, ClientUntouched
<1> QED BY <1>4, <1>6, <1>7

LEMMA ServerSleptKeepsInv ==
  ASSUME EchoInv, ServerSlept
  PROVE  EchoInv'
<1> USE StationFacts DEF EchoInv
<1>1. /\ Types'
      /\ pc[Server] = "sleep" /\ pc'[Server] = (IF stopLoop THEN "exited" ELSE "tx_create")
      /\ \A q \in Station \ {Server} : pc'[q] = pc[q]
      /\ UNCHANGED <<stop, stopLoop, data, size, done, printed, request, failures, starts>>
  BY GotoFacts DEF ServerSlept, Types, Places, history
<1>2. StartsInv' /\ ServerInv'
  BY <1>1 DEF StartsInv, ServerInv, Received
<1>3. \A c \in Client : ClientInv(c)'
  BY <1>1, ClientUntouched
<1> QED BY <1>1, <1>2, <1>3

LEMMA ClientReceivedKeepsInv ==
  ASSUME EchoInv, NEW p \in Client, ClientReceived(p)
  PROVE  EchoInv'
<1> USE EchoAssumption, StationFacts DEF EchoInv
<1>1. Terminated(data[p], size[p]) \in Buffer /\ Received(p) \in Seq(Bytes)
  <2>1. size[p] \in 0 .. BufferSize - 1 /\ data[p] \in Buffer
    BY DEF Types
  <2>2. 0 \in Bytes
    BY DEF Bytes
  <2>3. Terminated(data[p], size[p]) \in Buffer
    BY <2>1, <2>2 DEF Terminated, Buffer
  <2>4. Received(p) \in Seq(Bytes)
    <3>1. size[p] \in 0 .. BufferSize
      BY <2>1
    <3> QED BY <2>1, <3>1, BufferPrefix DEF Received
  <2> QED BY <2>3, <2>4
<1>2. /\ Types'
      /\ pc[p] = "rx_done" /\ pc'[p] = "exited" /\ printed'[p] = Received(p)
      /\ \A q \in Station \ {p} : pc'[q] = pc[q] /\ data'[q] = data[q]
      /\ \A q \in Client \ {p} : printed'[q] = printed[q]
      /\ UNCHANGED <<stop, stopLoop, size, done, request, failures, starts>>
  <2>1. /\ data' \in [Station -> Buffer]
        /\ \A q \in Station \ {p} : data'[q] = data[q]
    BY <1>1 DEF ClientReceived, Types
  <2>2. /\ printed' \in [Client -> Seq(Bytes)] /\ printed'[p] = Received(p)
        /\ \A q \in Client \ {p} : printed'[q] = printed[q]
    BY <1>1 DEF ClientReceived, Types, Received
  <2>3. /\ UNCHANGED <<stop, stopLoop, size, done, request, failures, starts>>
        /\ pc[p] = "rx_done" /\ Goto(p, "exited")
    BY DEF ClientReceived, history
  <2> QED BY <2>1, <2>2, <2>3, GotoFacts DEF Types, Places
<1>3. StartsInv' /\ ServerInv'
  BY <1>2, ServerUntouched
<1>4. ASSUME NEW c \in Client PROVE ClientInv(c)'
  <2>1. CASE c = p
    <3>1. printed'[p] # <<>> => size[p] > 0
      <4>1. size[p] \in Nat
        BY DEF Types
      <4>2. size[p] = 0 => Received(p) = <<>>
        BY DEF Received
      <4> QED BY <1>2, <4>1, <4>2
    <3>2. Answer(p, printed[p])' <=> Answer(p, Received(p))
      BY <1>2 DEF Answer, Parts
    <3> QED BY <1>2, <2>1, <3>1, <3>2 DEF ClientInv
  <2>2. CASE c # p
    BY <1>2, <2>2, ClientUntouched
  <2> QED BY <2>1, <2>2
<1> QED BY <1>2, <1>3, <1>4

LEMMA SignalKeepsInv ==
  ASSUME EchoInv, NEW p \in Station, Signal(p)
  PROVE  EchoInv'
<1> USE StationFacts DEF EchoInv
<1>1. /\ Types'
      /\ stop'[p] = TRUE /\ stopLoop' = (stopLoop \/ p = Server)
      /\ \A q \in Station \ {p} : stop'[q] = stop[q]
      /\ UNCHANGED <<pc, data, size, done, printed, request, failures, starts>>
  <2>1. /\ stop' \in [Station -> BOOLEAN] /\ stop'[p] = TRUE
        /\ \A q \in Station \ {p} : stop'[q] = stop[q]
    BY DEF Signal, Types
  <2>2. stopLoop' \in BOOLEAN /\ stopLoop' = (stopLoop \/ p = Server)
    BY DEF Signal, Types
  <2>3. UNCHANGED <<pc, data, size, done, printed, request, failures, starts>>
    BY DEF Signal, history
  <2> QED BY <2>1, <2>2, <2>3 DEF Types
<1>2. CASE p = Server
  <2>1. StartsInv' /\ ServerInv'
    BY <1>1, <1>2 DEF StartsInv, ServerInv, Received, Heard
  <2>2. \A c \in Client : ClientInv(c)'
    BY <1>1, <1>2, ClientUntouched
  <2> QED BY <1>1, <2>1, <2>2
<1>3. CASE p \in Client
  <2>1. stopLoop' = stopLoop
    BY <1>1, <1>3 DEF Types
  <2>2. StartsInv' /\ ServerInv'
    BY <1>1, <1>3, <2>1, ServerUntouched
  <2>3. \A c \in Client : ClientInv(c)'
    BY <1>1, ClientUntouched
  <2> QED BY <1>1, <2>2, <2>3
<1> QED BY <1>2, <1>3 DEF Station

(* What the sender p sends, when it has not sent everything. *)
LEMMA SendingFacts ==
  ASSUME EchoInv, NEW p \in Station, pc[p] = "tx", done[p] < Len(Sending(p))
  PROVE  /\ Sending(p) \in Seq(Bytes) /\ done[p] \in Nat
         /\ p = Server => Len(Sending(p)) = size[p]
         /\ p = Server /\ failures = 0 => Payload(p) = Sending(p) /\ done[p] = 0
         /\ failures = 0 => \A c \in Client \ {p} : Answer(c, Payload(p))
         /\ p # Server => \E d \in Client : Payload(p) \in Parts(Message[d])
<1> USE StationFacts DEF EchoInv
<1>1. done[p] \in Nat /\ size[p] \in 0 .. BufferSize - 1 /\ data[p] \in Buffer
  BY DEF Types
<1>2. CASE p = Server
  <2>1. size[p] \in 0 .. BufferSize
    BY <1>1, EchoAssumption
  <2>2. Sending(p) = Received(p) /\ Received(p) \in Seq(Bytes) /\ Len(Received(p)) = size[p]
    BY <1>1, <1>2, <2>1, BufferPrefix DEF Sending, Received
  <2>3. ASSUME failures = 0
        PROVE  /\ Payload(p) = Sending(p) /\ done[p] = 0
               /\ \A c \in Client : Answer(c, Payload(p))
    <3>1. done[p] = 0 /\ Received(p) = Reverse(request) /\ request \in Seq(Bytes)
      BY <1>2, <2>2, <2>3 DEF ServerInv, Types
    <3>2. Len(Received(p)) = Len(request) /\ Reverse(Received(p)) = request
      BY <3>1, ReverseTwice
    <3>3. PICK d \in Client : request \in Parts(Message[d])
      <4>1. request # <<>>
        BY <1>1, <2>2, <3>1, <3>2
      <4> QED BY <4>1 DEF ServerInv
    <3>4. Len(Received(p)) <= PayloadSize
      BY <3>2, <3>3, PartLength
    <3>5. Payload(p) = SubSeq(Received(p), 1, Len(Received(p)))
      BY <1>1, <2>2, <3>1, <3>4, EchoAssumption DEF Payload, Least
    <3>6. Payload(p) = Received(p)
      <4> DEFINE r == Received(p)
      <4>1. \A i \in 1 .. Len(r) : r[i] \in Bytes
        BY <2>2, ElementOfSeq
      <4>2. Len(r) \in Nat /\ r \in Seq(Bytes)
        BY <1>1, <2>2
      <4> HIDE DEF r
      <4>3. /\ SubSeq(r, 1, Len(r)) \in Seq(Bytes) /\ Len(SubSeq(r, 1, Len(r))) = Len(r)
            /\ \A i \in 1 .. Len(r) : SubSeq(r, 1, Len(r))[i] = r[i]
        BY <4>1, <4>2, SubSeqProperties
      <4>4. SubSeq(r, 1, Len(r)) = r
        BY <4>2, <4>3, SeqEqual
      <4> QED BY <3>5, <4>4 DEF r
    <3> QED BY <2>2, <3>1, <3>2, <3>3, <3>6 DEF Answer
  <2> QED BY <1>1, <1>2, <2>2, <2>3
<1>3. CASE p \in Client
  <2>1. Sending(p) = Message[p] /\ Message[p] \in Seq(Bytes)
    BY <1>3, MessageBytes DEF Sending
  <2>2. Payload(p) \in Parts(Message[p])
    BY <1>1, <1>3, <2>1, PayloadIsPart DEF ClientInv
  <2> QED BY <1>1, <1>3, <2>1, <2>2 DEF Answer
<1> QED BY <1>2, <1>3 DEF Station

LEMMA SendFrameKeepsInv ==
  ASSUME EchoInv, NEW p \in Station, SendFrame(p)
  PROVE  EchoInv'
<1> USE EchoAssumption, StationFacts DEF EchoInv
<1>1. PICK heard \in SUBSET Listening :
        /\ data' = [q \in Station |->
                      IF q \in heard THEN Copied(q, Payload(p)) ELSE data[q]]
        /\ done' = [q \in Station |->
                      IF q = p THEN Advance(p)
                      ELSE IF q \in heard THEN Kept(q, Payload(p)) ELSE done[q]]
        /\ stop' = [q \in Station |-> stop[q] \/ q \in heard]
        /\ request' = IF Server \in heard THEN Payload(p) ELSE request
  BY DEF SendFrame
<1>2. /\ pc[p] = "tx" /\ done[p] < Len(Sending(p))
      /\ UNCHANGED <<pc, stopLoop, size, printed, failures, starts>>
  BY DEF SendFrame
<1>3. /\ Sending(p) \in Seq(Bytes) /\ done[p] \in Nat
      /\ p = Server => Len(Sending(p)) = size[p]
      /\ p = Server /\ failures = 0 => Payload(p) = Sending(p) /\ done[p] = 0
      /\ failures = 0 => \A c \in Client \ {p} : Answer(c, Payload(p))
      /\ p # Server => \E d \in Client : Payload(p) \in Parts(Message[d])
  BY <1>2, SendingFacts
<1>4. /\ Payload(p) \in Seq(Bytes)
      /\ Len(Payload(p)) \in 1 .. PayloadSize
      /\ Advance(p) = Least(done[p] + PayloadSize, Len(Sending(p)))
  BY <1>2, <1>3, PayloadFacts
(* The stations that listen have room for the frame. *)
<1>5. ASSUME NEW q \in heard
      PROVE  /\ q \in Station /\ pc[q] = "rx" /\ q # p
             /\ Kept(q, Payload(p)) = Len(Payload(p))
             /\ Copied(q, Payload(p)) \in Buffer
             /\ SubSeq(Copied(q, Payload(p)), 1, Len(Payload(p))) = Payload(p)
  <2>1. q \in Station /\ pc[q] = "rx" /\ q # p
    BY <1>2 DEF Listening
  <2>2. size[q] = BufferSize - 1 /\ data[q] \in Buffer
    BY <2>1 DEF ServerInv, ClientInv, Types, Station
  <2>3. size[q] \in 0 .. BufferSize - 1 /\ Len(Payload(p)) <= size[q]
    BY <1>4, <2>1, <2>2 DEF Types
  <2> QED BY <1>4, <2>1, <2>2, <2>3, CopiedPrefix
<1>6. /\ Advance(p) \in Nat /\ Advance(p) <= Len(Sending(p)) /\ Len(Sending(p)) \in Nat
      /\ Len(Payload(p)) < BufferSize /\ Len(Payload(p)) \in Nat /\ Len(Payload(p)) > 0
  BY <1>3, <1>4 DEF Least
<1>7. /\ done'[p] = Advance(p) /\ data'[p] = data[p]
      /\ \A q \in heard : /\ done'[q] = Len(Payload(p)) /\ stop'[q] = TRUE
                          /\ SubSeq(data'[q], 1, done'[q]) = Payload(p)
      /\ \A q \in Station \ (heard \cup {p}) : done'[q] = done[q] /\ data'[q] = data[q]
      /\ \A q \in Station \ heard : stop'[q] = stop[q]
  BY <1>1, <1>5 DEF Types
<1>8. Types'
  <2>1. data' \in [Station -> Buffer]
    BY <1>1, <1>5 DEF Types
  <2>2. done' \in [Station -> Nat]
    BY <1>1, <1>5, <1>6 DEF Types
  <2>3. stop' \in [Station -> BOOLEAN]
    BY <1>1
  <2>4. request' \in Seq(Bytes)
    BY <1>1, <1>4 DEF Types
  <2>5. done'[Server] < BufferSize
    <3>1. CASE p = Server
      BY <1>3, <1>6, <1>7, <3>1 DEF Types
    <3>2. CASE p # Server
      BY <1>6, <1>7, <3>2 DEF Types
    <3> QED BY <3>1, <3>2
  <2>6. ASSUME NEW c \in Client
        PROVE  done'[c] <= Len(Message[c]) \/ done'[c] < BufferSize
    <3>1. CASE c = p
      BY <1>6, <1>7, <3>1 DEF Sending
    <3>2. CASE c \in heard
      BY <1>6, <1>7, <3>2
    <3>3. CASE c # p /\ c \notin heard
      BY <1>7, <3>3 DEF Types
    <3> QED BY <3>1, <3>2, <3>3
  <2> QED BY <1>2, <2>1, <2>2, <2>3, <2>4, <2>5, <2>6 DEF Types
<1>9. StartsInv' /\ ServerInv'
  <2>1. CASE p = Server
    <3>1. Server \notin heard /\ request' = request
      BY <1>1, <1>5, <2>1
    <3>2. Received(Server)' = Received(Server)
      BY <1>2, <1>7, <2>1 DEF Received
    <3>3. done'[Server] <= size[Server]
      BY <1>3, <1>6, <1>7, <2>1
    <3>4. failures = 0 => done'[Server] = size[Server]
      <4>1. SUFFICES ASSUME failures = 0 PROVE Advance(Server) = size[Server]
        BY <1>7, <2>1
      <4> QED BY <1>3, <2>1, <4>1 DEF Advance
    <3> QED BY <1>2, <1>7, <2>1, <3>1, <3>2, <3>3, <3>4 DEF StartsInv, ServerInv
  <2>2. CASE Server \in heard
    <3>1. /\ pc[Server] = "rx" /\ p # Server /\ request' = Payload(p)
          /\ Heard(Server)' = Payload(p) /\ done'[Server] > 0
      BY <1>1, <1>5, <1>6, <1>7, <2>2 DEF Heard
    <3>2. \E d \in Client : request' \in Parts(Message[d])
      BY <1>3, <3>1
    <3> QED BY <1>2, <3>1, <3>2 DEF StartsInv, ServerInv
  <2>3. CASE Server # p /\ Server \notin heard
    <3>1. request' = request
      BY <1>1, <2>3
    <3> QED BY <1>2, <1>7, <2>3, <3>1, ServerUntouched
  <2> QED BY <2>1, <2>2, <2>3
<1>10. ASSUME NEW c \in Client PROVE ClientInv(c)'
  <2>1. CASE c = p
    <3>1. AtPart(c)'
      BY <1>2, <1>3, <1>6, <1>7, <2>1, PayloadIsPart DEF AtPart, ClientInv, Sending
    <3> QED BY <1>2, <2>1, <3>1, PrintedUntouched DEF ClientInv
  <2>2. CASE c \in heard
    <3>1. /\ pc[c] = "rx" /\ c # p /\ done'[c] < BufferSize
          /\ Answer(c, Heard(c))' <=> Answer(c, Payload(p))
      <4>1. Heard(c)' = Payload(p)
        BY <1>7, <2>2 DEF Heard
      <4> QED BY <1>5, <1>6, <1>7, <2>2, <4>1 DEF Answer, Parts
    <3> QED BY <1>2, <1>3, <2>2, <3>1, PrintedUntouched DEF ClientInv
  <2>3. CASE c # p /\ c \notin heard
    BY <1>2, <1>7, <2>3, ClientUntouched
  <2> QED BY <2>1, <2>2, <2>3
<1> QED BY <1>8, <1>9, <1>10
-----------------------------------------------------------------------------
LEMMA NextEchoInv == EchoInv /\ [Next]_vars => EchoInv'
<1> SUFFICES ASSUME EchoInv, [Next]_vars PROVE EchoInv'
  OBVIOUS
<1>1. ASSUME UNCHANGED vars PROVE EchoInv'
  <2>1. StartsInv' /\ ServerInv'
    BY <1>1, ServerUntouched DEF EchoInv, vars, history
  <2>2. \A c \in Client : ClientInv(c)'
    BY <1>1, ClientUntouched DEF EchoInv, vars, history
  <2>3. Types'
    BY <1>1 DEF EchoInv, Types, vars, history
  <2> QED BY <2>1, <2>2, <2>3 DEF EchoInv
<1>2. ASSUME NEW p \in Station, Step(p) PROVE EchoInv'
  BY <1>2, StationFacts, CreateReceiverKeepsInv, StartReceiverKeepsInv,
     LeaveReceiverKeepsInv, CreateSenderKeepsInv, StartSenderKeepsInv, SendFrameKeepsInv,
     LeaveSenderKeepsInv, ServerLoopKeepsInv, ServerReceivedKeepsInv, ServerSleptKeepsInv,
     ClientReceivedKeepsInv DEF Step
<1> QED BY <1>1, <1>2, SignalKeepsInv DEF Next, Ended

(* The invariant holds in every reachable state. *)
THEOREM AlwaysEchoInv == Spec => []EchoInv
<1>1. EchoInv /\ [Next]_vars => EchoInv'
  BY NextEchoInv
<1> QED BY <1>1, InitEchoInv, PTL DEF Spec

(* The values of the variables: nobody writes outside the buffer. *)
THEOREM EchoTypeCorrect == Spec => []TypeOK
<1>1. EchoInv => TypeOK
  <2> SUFFICES ASSUME EchoInv PROVE TypeOK
    OBVIOUS
  <2>1. ASSUME NEW p \in Station
        PROVE  done[p] \in 0 .. Len(Sending(p)) \cup 0 .. BufferSize - 1
    <3>1. CASE p = Server
      BY <3>1, EchoAssumption DEF EchoInv, Types
    <3>2. CASE p \in Client
      BY <3>2, EchoAssumption, StationFacts, MessageBytes DEF EchoInv, Types, Sending
    <3> QED BY <3>1, <3>2 DEF Station
  <2> QED BY <2>1 DEF EchoInv, Types, TypeOK, Buffer
<1> QED BY <1>1, AlwaysEchoInv, PTL

(* The server sends the reverse of what it has heard last. *)
THEOREM AlwaysSendsReverse == Spec => []SendsReverse
<1>1. EchoInv => SendsReverse
  BY DEF EchoInv, ServerInv, SendsReverse, Sending, Received
<1> QED BY <1>1, AlwaysEchoInv, PTL

(* A client prints an answer, a part of the message of another, or nothing. *)
THEOREM AlwaysPrintsAnswer == Spec => []PrintsAnswer
<1>1. EchoInv => PrintsAnswer
  BY DEF EchoInv, ClientInv, PrintsAnswer, Answer
<1> QED BY <1>1, AlwaysEchoInv, PTL

(* After a signal the server starts at most one more transfer. *)
THEOREM AlwaysAtMostOneMore == Spec => []AtMostOneMore
<1>1. EchoInv => AtMostOneMore
  BY DEF EchoInv, StartsInv, AtMostOneMore
<1> QED BY <1>1, AlwaysEchoInv, PTL
=============================================================================
