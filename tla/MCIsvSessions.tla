---------------------------- MODULE MCIsvSessions ----------------------------
(* Three invocations, so that one can meet what is left of two others; one    *)
(* has a set command, which the inverter acknowledges in a single report, and *)
(* two have queries, answered in two.                                         *)
EXTENDS IsvSessions

MCInvocations == 1 .. 3
MCSetChoices == {1 .. 1}
=============================================================================
