---------------------------- MODULE MCFileWatch ----------------------------
(* FileWatch on a small instance. *)
EXTENDS FileWatch, TLC

Symmetry == Permutations(Inode)
=============================================================================
