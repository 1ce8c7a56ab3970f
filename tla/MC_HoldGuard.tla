---------------------------- MODULE MC_HoldGuard ----------------------------
(* The instances of HoldGuard that TLC checks. *)
EXTENDS HoldGuard, TLC

CONSTANTS f1, f2, f3

ThreeFiles == {f1, f2, f3}
Interchangeable == Permutations(ThreeFiles)
=============================================================================
