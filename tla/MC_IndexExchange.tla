-------------------------- MODULE MC_IndexExchange --------------------------
(* The instances of IndexExchange that TLC checks. *)
EXTENDS IndexExchange
=============================================================================
