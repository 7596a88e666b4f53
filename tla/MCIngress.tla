------------------------------ MODULE MCIngress ------------------------------
EXTENDS Ingress, TLC

Text(tokens, length) == [tokens |-> tokens, length |-> length,
                         prefix |-> FALSE, crisis |-> FALSE]
Long == Text(12, 70)
Short == Text(1, 6)
Continuation == [Text(4, 25) EXCEPT !.prefix = TRUE]
Crisis == [Text(2, 14) EXCEPT !.crisis = TRUE]
Blank == Text(0, 0)

Webhook(text) == [via |-> "webhook", text |-> text]
Bot(text) == [via |-> "bot", text |-> text]

(* Pairs of messages that meet in different ways: two intakes, an intake   *)
(* and a route without a model call, a dialogue turn, a message without    *)
(* words, and the two channels.                                            *)
Pairs(u1, u2) ==
  {(u1 :> a) @@ (u2 :> b) :
     <<a, b>> \in {<<Webhook(Long), Webhook(Long)>>,
                   <<Webhook(Long), Webhook(Short)>>,
                   <<Webhook(Long), Bot(Continuation)>>,
                   <<Bot(Long), Bot(Crisis)>>,
                   <<Webhook(Blank), Bot(Blank)>>}}

MCUpdates == {1, 2}
MCMail == Pairs(1, 2)
MCSessions == 1 .. 5
=============================================================================
