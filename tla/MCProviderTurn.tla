--------------------------- MODULE MCProviderTurn ---------------------------
(* Answers without calls, with two parallel calls, and with a parallel and *)
(* a sequential one.                                                       *)
EXTENDS ProviderTurn, TLC

MCAnswers == {<< >>, <<"sequential">>, <<"parallel", "parallel">>, <<"parallel", "sequential">>}
MCBadAnswers == {<<"sequential">>}
=============================================================================
