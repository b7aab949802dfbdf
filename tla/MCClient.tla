------------------------------- MODULE MCClient -------------------------------
(* An instance of Client for TLC.  Users are interchangeable when their     *)
(* names are all in Plain, or none is.                                      *)
EXTENDS Client, TLC

Symmetry == Permutations(Users) \cup Permutations(Pwds) \cup Permutations(Tabs)
               \cup Permutations(Calls)
=============================================================================
