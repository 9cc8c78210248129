------------------------------ MODULE MCCache ------------------------------
(* A small instance of CacheClient: one process that runs all coroutines. *)
EXTENDS CacheClient

CONSTANT p1

OneProcess == [c \in Coros |-> p1]
=============================================================================
