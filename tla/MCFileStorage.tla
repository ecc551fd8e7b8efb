--------------------------- MODULE MCFileStorage ---------------------------
(* FileStorage on a small instance: two stacks, both goroutines, and as     *)
(* many inodes as can be referred to at once when one is made.              *)
EXTENDS FileStorage, TLC

Symmetry == Permutations(Inode) \cup Permutations(StackID)
=============================================================================
