----------------------------- MODULE MCNotifyHub -----------------------------
(* A small instance: one rider and four events, the first of which is no   *)
(* JSON and the last of which is about somebody else; channel and history  *)
(* are short enough to overflow.                                           *)
EXTENDS NotifyHub

MCEvents == 1..4
MCDurableOf == <<"ride", "ride", "driver", "ride">>
MCAbout == <<{}, {"rider"}, {"rider"}, {"other"}>>
MCMalformed == {1}
MCFilterOf == [c \in Clients |-> {"rider"}]
==============================================================================
