----------------------------- MODULE MCPageTable -----------------------------
(* Instances of PageTable for TLC; the constants get their values in the cfg. *)
EXTENDS PageTable, TLC

SpaceSymmetry == Permutations(Space)
==============================================================================
