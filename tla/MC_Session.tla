----------------------------- MODULE MC_Session -----------------------------
(* Session for TLC. *)
EXTENDS Session

MCNode == {1, 2}
=============================================================================
