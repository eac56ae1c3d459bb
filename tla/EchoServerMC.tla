---------------------------- MODULE EchoServerMC -----------------------------
(* A client whose message takes two frames and one whose message takes one. *)
EXTENDS EchoServer, TLC

Messages == "c1" :> <<1, 2, 3>> @@ "c2" :> <<4>>
=============================================================================
