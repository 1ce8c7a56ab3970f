----------------------------- MODULE MC_PeerConn -----------------------------
(* PeerConn for TLC: node 2 has the higher key. *)
EXTENDS PeerConn

MCNode == {1, 2}
MCHigher == 2
MCNone == <<0, 0>>
=============================================================================
