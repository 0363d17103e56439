------------------------- MODULE MCDatabaseRuntime -------------------------
(* Three requests for two connections, transactions of two statements and  *)
(* one retry: a pool made twice, exhausted, and given back by a sleeper.   *)
EXTENDS DatabaseRuntime
=============================================================================
