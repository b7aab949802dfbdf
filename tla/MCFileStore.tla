----------------------------- MODULE MCFileStore -----------------------------
(* Instances of FileStore for TLC.                                         *)
EXTENDS FileStore, TLC

Symmetry == Permutations(Users) \cup Permutations(Files) \cup Permutations(Blobs)
               \cup Permutations(Calls) \cup Permutations(Links)
=============================================================================
