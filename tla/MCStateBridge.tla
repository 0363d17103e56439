---------------------------- MODULE MCStateBridge ----------------------------
(* One signal with the name it has in the source.                          *)
EXTENDS StateBridge, TLC

OneAlias == <<"count">>
=============================================================================
