--------------------------- MODULE MCConfigDialog ---------------------------
(* Bounds of the runs on ConfigDialog: two dialogs, the second over the    *)
(* first, and pairs and dialogs that differ in nothing but their names.    *)
EXTENDS ConfigDialog, TLC

NameSymmetry == Permutations(Pairs) \cup Permutations(Dialogs)
=============================================================================
