------------------------------ MODULE MC_Access ------------------------------
(* Access for TLC. *)
EXTENDS Access
=============================================================================
