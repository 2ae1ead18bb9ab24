---------------------------- MODULE MCFillTracking ----------------------------
(* An instance of FillTracking for TLC. *)
EXTENDS FillTracking, TLC

Symmetry == Permutations(Trades)
=============================================================================
