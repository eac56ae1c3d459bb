----------------------------- MODULE ReceptionMC -----------------------------
(* Frames for two receivers, the first to be checked. *)
EXTENDS Reception

OwnForeignOwn == << <<"id", <<1, 2>> >>, <<"other", <<3>> >>, <<"id", <<4>> >> >>

OneOwn == << <<"id", <<1, 2>> >> >>
=============================================================================
