----------------------------- MODULE MC_Replicas -----------------------------
(***************************************************************************)
(* Instances of Replicas for TLC: one hub and one or two spokes, integers  *)
(* standing for short ids so that versions, digests and nodes compare.     *)
(***************************************************************************)
EXTENDS Replicas

OneSpoke == {1}
TwoSpokes == {1, 2}
HubAndOne == {0, 1}
HubAndTwo == {0, 1, 2}
TwoWay == [s \in Spoke |-> "mirror"]
ReceiveOnly == [s \in Spoke |-> "receive-only"]
NoRowValue == [kind |-> "no row"]
=============================================================================
