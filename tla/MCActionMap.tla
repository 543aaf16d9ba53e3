---------------------------- MODULE MCActionMap ----------------------------
(* Bounds of the runs on ActionMap: the sizes of the constant sets. Blocks *)
(* bounds the list; blocks differ in nothing but their identity.           *)
EXTENDS ActionMap

BlockSymmetry == Permutations(Blocks)
=============================================================================
