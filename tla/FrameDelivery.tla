---------------------------- MODULE FrameDelivery ----------------------------
(***************************************************************************)
(* What a transfer promises: the payloads that the sender puts into frames  *)
(* come out of the receiver once each and in the same order, and a receiver *)
(* that ends by itself has delivered them all.                              *)
(***************************************************************************)
EXTENDS Naturals, Sequences

CONSTANT Payloads    (* what a frame may carry *)

VARIABLES
  sent,    (* payloads put into frames                                         *)
  got,     (* payloads given to the data callback                              *)
  state    (* of the receiver: "open", then "complete" or "cut" by a stop      *)

deliveryVars == <<sent, got, state>>

Init == sent = <<>> /\ got = <<>> /\ state = "open"

Send ==
  /\ state # "complete"
  /\ \E payload \in Payloads : sent' = Append(sent, payload)
  /\ UNCHANGED <<got, state>>

Deliver ==
  /\ state = "open" /\ Len(got) < Len(sent)
  /\ got' = Append(got, sent[Len(got) + 1])
  /\ UNCHANGED <<sent, state>>

Complete ==
  /\ state = "open" /\ got = sent
  /\ state' = "complete"
  /\ UNCHANGED <<sent, got>>

Cut ==
  /\ state = "open"
  /\ state' = "cut"
  /\ UNCHANGED <<sent, got>>

Next == Send \/ Deliver \/ Complete \/ Cut

Spec == Init /\ [][Next]_deliveryVars
=============================================================================
